---- MODULE Spec2Model ----
(***************************************************************************)
(* A model of the event-feed builder: the per-source main loop, the merge  *)
(* and de-duplication stage, the feed assembler, the source filter and the *)
(* selector resolver.  The repository holds several revisions of the same  *)
(* script; the ones the model follows are                                  *)
(*   "part_002"    src/unnamed/part_002  (five modes, filters, images)      *)
(*   "scraper_mjs" src/scraper.mjs       (the simplified revision)          *)
(*   "part_000"    src/unnamed/part_000, lines 1-606 (the first revision,  *)
(*                 followed in DiagSpec, ScrollSpec and ReloadSpec)        *)
(* and the variable `variant` says which of them is running.               *)
(*                                                                         *)
(* Text is modelled as a sequence of one-character strings, so that trim,  *)
(* lower-casing, whitespace collapsing, splitting and substring search are *)
(* computed and not assumed.                                               *)
(*                                                                         *)
(* Specifications:                                                         *)
(*   Spec, FairSpec  main: the source loop, then de-dup, slice, buildRSS   *)
(*   DedupSpec       the de-dup loop, one iteration at a time              *)
(*   CapSpec         slice(0, 500) and buildRSS on long de-duplicated lists *)
(*   FilterSpec      applyDefaults and the filter predicate it builds      *)
(*   SelSpec         firstExistingSelector against a changing page         *)
(*   SelFairSpec     the same, every pending count() and sleep() settling  *)
(*   DiagSpec        main of the three revisions: fallback and diagnostics *)
(*   DomSpec         scrapeDOM: the item container and the loop over cards *)
(*   IcsSpec         the call main makes for an ics source, and scrapeICS  *)
(*   JsonSpec        scrapeJSON                                            *)
(*   LdSpec          scrapeJSONLD: the Event nodes and their images        *)
(*   RssSpec         scrapeRSS                                             *)
(*   RerunSpec       scrapeJSON or scrapeRSS called twice on one response  *)
(*   DomItemsSpec    scrapeDOM: max, card images, detail-page fallback     *)
(*   ScrollSpec, ScrollFairSpec  autoScroll of the first revision          *)
(*   ReloadSpec      scrapeDOM of the first revision: reload and re-check  *)
(***************************************************************************)
EXTENDS Integers, Sequences, FiniteSets, TLC

VARIABLES
  variant,     \* which revision of the script runs
  pc,          \* where the running function is suspended
  \* ---- main
  SITES,       \* the parsed sites.json, read once at load
  idx,         \* position of the for..of loop in SITES (1-based)
  cur,         \* the extractor call main is awaiting, or NoCall
  part,        \* `part` of the current iteration
  items,       \* the aggregate list
  log,         \* per source: what main did for it (calls, outcome, part, snapshots)
  rec,         \* how the last diagnostic recording went: "none", "saved", "failed"
  written,     \* number of fs.writeFileSync(OUT_FILE, ...) calls
  \* ---- de-dup loop
  seen,        \* the Set of keys
  dedup,       \* the de-duplicated list
  kept,        \* positions in items of the records pushed to dedup
  pos,         \* position of the de-dup loop in items (1-based)
  \* ---- feed assembly
  handed,      \* the list given to buildRSS
  feed,        \* the item nodes of the built feed
  \* ---- applyDefaults / cfg._filter
  filters,     \* cfg.filters
  blob,        \* the text the predicate was last called with
  verdict,     \* what the predicate returned for it
  \* ---- firstExistingSelector
  candidates,  \* the candidate string
  timeoutMs,   \* the timeout argument
  list,        \* the split, trimmed, non-empty candidates
  elapsed,     \* Date.now() - start
  k,           \* position of the inner loop in list (1-based)
  roundLog,    \* what count() gave for list[1..k-1] in the current poll round
  polls,       \* number of sleep(250) calls that have resolved
  rounds,      \* number of poll rounds (inner loops) run to their end
  ret,         \* what the call returned
  \* ---- one extractor call (scrapeDOM, scrapeJSON, scrapeICS)
  xcfg,        \* the configuration the extractor is called with
  body,        \* what the page or the response holds
  xi,          \* position of the extractor's loop (1-based)
  out,         \* the records pushed so far
  xret,        \* "none", "running", "returned" or "threw"
  \* ---- a second run of an extractor over the same content
  clock,       \* the current time the run reads with new Date()
  run,         \* 1 in the first run, 2 in the second
  prev,        \* what the first run returned
  \* ---- autoScroll
  scrolled,    \* `scrolled` of the interval callback, in pixels
  height,      \* document.body.scrollHeight, in pixels
  ticks,       \* number of interval callbacks that have run
  growth,      \* by how much the page grows when it is scrolled
  \* ---- the reload and re-check of scrapeDOM (first revision)
  reloads,     \* number of page.reload calls made
  captures     \* the reasons of the saveDebug calls made inside scrapeDOM

mainVars   == <<SITES, idx, cur, part, items, log, rec, written>>
dedupVars  == <<seen, dedup, kept, pos>>
outVars    == <<handed, feed>>
filterVars == <<filters, blob, verdict>>
selVars    == <<candidates, timeoutMs, list, elapsed, k, roundLog, polls, rounds, ret>>
exVars     == <<xcfg, body, xi, out, xret>>
rerunVars  == <<clock, run, prev>>
scrollVars == <<scrolled, height, ticks, growth>>
reloadVars == <<reloads, captures>>
vars == <<variant, pc, mainVars, dedupVars, outVars, filterVars, selVars, exVars,
          rerunVars, scrollVars, reloadVars>>

\* ------------------------------------------------------------------ bounds
MaxSources == 2      \* longest source list (sites.json) explored
MaxPart    == 1      \* most records one extractor call returns
MaxLen     == 4      \* longest aggregate list given to the de-dup loop
MaxDedup   == 700    \* most de-duplicated records given to slice/buildRSS
MaxTerms   == 2      \* longest include / exclude list
MaxBlob    == 2      \* longest text given to the filter predicate
MaxCand    == 3      \* longest candidate string given to the selector resolver

\* ------------------------------------------------------- program constants
FeedCap == 500       \* dedup.slice(0, 500)
PollMs  == 250       \* sleep(250) in firstExistingSelector

Variants == {"part_002", "scraper_mjs"}
\* ... and the first revision kept in part_000 (lines 1-606)
AllVariants == Variants \cup {"part_000"}
Undefined == "undefined"

SeqsUpTo(S, n) == UNION { [1..m -> S] : m \in 0..n }

\* ------------------------------------------------------------ text helpers
IsWs(c) == c \in {" ", "\t"}

RECURSIVE TrimStart(_)
TrimStart(s) ==
  IF s = <<>> THEN <<>>
  ELSE IF IsWs(Head(s)) THEN TrimStart(Tail(s)) ELSE s

RECURSIVE TrimEnd(_)
TrimEnd(s) ==
  IF s = <<>> THEN <<>>
  ELSE IF IsWs(s[Len(s)]) THEN TrimEnd(SubSeq(s, 1, Len(s) - 1)) ELSE s

\* String.prototype.trim
trim(s) == TrimEnd(TrimStart(s))

LowerChar(c) ==
  CASE c = "A" -> "a"
    [] c = "B" -> "b"
    [] OTHER   -> c

\* String.prototype.toLowerCase
toLowerCase(s) == [i \in 1..Len(s) |-> LowerChar(s[i])]

\* s.replace(/\s+/g, ' ')
RECURSIVE CollapseWs(_)
CollapseWs(s) ==
  IF s = <<>> THEN <<>>
  ELSE IF IsWs(Head(s)) THEN <<" ">> \o CollapseWs(TrimStart(s))
  ELSE <<Head(s)>> \o CollapseWs(Tail(s))

\* safe(v) on a string value: v.trim()
safe(v) == trim(v)

\* norm(s) = safe(s).toLowerCase().replace(/\s+/g, ' ').trim()
norm(s) == trim(CollapseWs(toLowerCase(safe(s))))

\* String.prototype.includes
includes(t, w) ==
  \E i \in 1..(Len(t) + 1) :
    /\ i + Len(w) - 1 <= Len(t)
    /\ SubSeq(t, i, i + Len(w) - 1) = w

\* ------------------------------------------------------------------ records
\* A NormalizedEventRecord as the extractors push it.
Rec(t, d, l) ==
  [title |-> t, link |-> l, guid |-> l \o <<"#">> \o norm(t) \o <<"#">>,
   pubDate |-> <<"now">>, description |-> d, image |-> <<>>]

\* The records an extractor call of the main loop may return: two records that
\* differ as written and agree after normalization.
MainPool ==
  { Rec(<<"a">>, <<"b">>, <<"u">>),
    Rec(<<"A">>, <<" ", "b">>, <<"u">>) }

\* The records of the lists given to the de-dup loop: MainPool, a record with
\* another title, and two records whose fields differ and whose joined keys
\* agree because a field holds the separator.
DedupPool ==
  MainPool \cup
  { Rec(<<"b">>, <<"b">>, <<"u">>),
    Rec(<<"a", "|", "b">>, <<>>, <<"u">>),
    Rec(<<"a">>, <<"b", "|">>, <<"u">>) }

\* ------------------------------------------------------- merge and de-dup
\* A key joined from the fields as written, without norm.
DedupKeyRaw(it) ==
  it.title \o <<"|">> \o it.description \o <<"|">> \o it.link

\* const k = norm(it.title) + '|' + norm(it.description) + '|' + norm(it.link)
DedupKey(it) ==
  norm(it.title) \o <<"|">> \o norm(it.description) \o <<"|">> \o norm(it.link)

\* DedupKey on the records of the model, computed once.
KeyOf == [r \in DedupPool |-> DedupKey(r)]

DedupInit == [seen |-> {}, dedup |-> <<>>, kept |-> <<>>]

\* A loop body that forgets a key when it meets it again.
DedupStepForgets(st, it, p) ==
  IF KeyOf[it] \in st.seen
    THEN [st EXCEPT !.seen = st.seen \ {KeyOf[it]}]
    ELSE [seen  |-> st.seen \cup {KeyOf[it]},
          dedup |-> Append(st.dedup, it),
          kept  |-> Append(st.kept, p)]

\* One iteration of `for (const it of items)`: st = [seen, dedup, kept], where
\* kept lists the positions (in items) of the records pushed to dedup.
DedupStep(st, it, p) ==
  IF KeyOf[it] \in st.seen
    THEN st
    ELSE [seen  |-> st.seen \cup {KeyOf[it]},
          dedup |-> Append(st.dedup, it),
          kept  |-> Append(st.kept, p)]

\* The iterations from position p on.
RECURSIVE DedupFrom(_, _, _)
DedupFrom(st, L, p) ==
  IF p > Len(L) THEN st
  ELSE CHOOSE r \in { DedupFrom(nx, L, p + 1) : nx \in {DedupStep(st, L[p], p)} } : TRUE

\* The whole de-dup loop on a list.
DedupAll(L) == DedupFrom(DedupInit, L, 1).dedup

\* ------------------------------------------------------------ feed assembly
\* A slice that keeps everything.
TruncateNoCap(d) == d

\* dedup.slice(0, 500)
Truncate(d) == SubSeq(d, 1, IF Len(d) < FeedCap THEN Len(d) ELSE FeedCap)

\* cdata(s)
cdata(s) == <<"<![CDATA[">> \o s \o <<"]]>">>

\* One item node of buildRSS.  part_002 adds the inline <img>, media:content
\* and enclosure for a record with an image; scraper.mjs emits the five plain
\* fields.  (The enclosure's MIME type is not modelled.)
ItemNode(v, i) ==
  IF v = "scraper_mjs"
    THEN [title |-> i.title, link |-> i.link, guid |-> i.guid,
          pubDate |-> i.pubDate, description |-> i.description,
          media |-> <<>>, enclosure |-> <<>>]
    ELSE [title |-> i.title, link |-> i.link, guid |-> i.guid,
          pubDate |-> i.pubDate,
          description |->
            cdata((IF i.image # <<>>
                     THEN <<"<p><img src=\"">> \o i.image \o <<"\" alt=\"\"/></p>">>
                     ELSE <<>>) \o i.description),
          media |-> i.image, enclosure |-> i.image]

\* items.map(...) of buildRSS: the channel's item list.
BuildRSS(v, its) == [n \in 1..Len(its) |-> ItemNode(v, its[n])]

\* ------------------------------------------------- idle values of the parts
\* A specification that does not run a part of the program holds that part's
\* variables at these values.
IdleMain ==
  /\ SITES = <<>> /\ idx = 1 /\ part = <<>> /\ log = <<>> /\ rec = "none" /\ written = 0
  /\ cur = [fn |-> "none", field |-> "none", loc |-> Undefined, synthetic |-> FALSE]
IdleDedup  == seen = {} /\ kept = <<>> /\ pos = 1
IdleOut    == handed = <<>> /\ feed = <<>>
IdleFilter ==
  /\ filters = [present |-> FALSE, hasInclude |-> FALSE, include |-> <<>>,
                hasExclude |-> FALSE, exclude |-> <<>>]
  /\ blob = <<>> /\ verdict = "none"
IdleSel ==
  /\ candidates = [defined |-> FALSE, text |-> <<>>]
  /\ timeoutMs = 0 /\ list = <<>> /\ elapsed = 0
  /\ k = 1 /\ roundLog = <<>> /\ polls = 0 /\ rounds = 0 /\ ret = [kind |-> "none", sel |-> <<>>]

IdleRerun  == clock = "now" /\ run = 1 /\ prev = <<>>
IdleScroll == scrolled = 0 /\ height = 0 /\ ticks = 0 /\ growth = 0
IdleReload == reloads = 0 /\ captures = <<>>
IdleEx ==
  /\ xcfg = [fn |-> "none"] /\ body = <<>> /\ xi = 1 /\ out = <<>> /\ xret = "none"

\* ---------------------------------------------------------------- main loop
Modes    == {"dom", "jsonld", "json", "ics", "rss"}
\* a mode value outside the five
OtherModes == {"xml"}

NoCall == [fn |-> "none", field |-> "none", loc |-> Undefined, synthetic |-> FALSE]

\* A source configuration: only the locator that belongs to its mode is set.
MkCfg(m) ==
  [mode |-> m,
   url  |-> IF m \in {"dom", "jsonld"} THEN "set" ELSE Undefined,
   api  |-> IF m = "json" THEN "set" ELSE Undefined,
   ics  |-> IF m = "ics"  THEN "set" ELSE Undefined,
   rss  |-> IF m = "rss"  THEN "set" ELSE Undefined]

\* A dispatch whose final branch runs the DOM extractor.
ExtractorElseDom(v, m) ==
  CASE m = "dom"    -> "scrapeDOM"
    [] m = "jsonld" -> "scrapeJSONLD"
    [] m = "json"   -> "scrapeJSON"
    [] m = "ics"    -> IF v = "scraper_mjs" THEN "scrapeJSON" ELSE "scrapeICS"
    [] m = "rss" /\ v # "scraper_mjs" -> "scrapeRSS"
    [] OTHER -> "scrapeDOM"

\* The extractor the if/else-if chain of main calls for a mode ("none": the
\* final else branch).  scraper.mjs sends ics to scrapeJSON and has no rss branch.
Extractor(v, m) ==
  CASE m = "dom"    -> "scrapeDOM"
    [] m = "jsonld" -> "scrapeJSONLD"
    [] m = "json"   -> "scrapeJSON"
    [] m = "ics"    -> IF v = "scraper_mjs" THEN "scrapeJSON" ELSE "scrapeICS"
    [] m = "rss" /\ v # "scraper_mjs" -> "scrapeRSS"
    [] OTHER -> "none"

\* The configuration field an extractor navigates to or fetches.
LocatorField(fn) ==
  CASE fn = "scrapeDOM"    -> "url"
    [] fn = "scrapeJSONLD" -> "url"
    [] fn = "scrapeJSON"   -> "api"
    [] fn = "scrapeICS"    -> "ics"
    [] fn = "scrapeRSS"    -> "rss"

Call(fn, cfg, syn) ==
  [fn |-> fn, field |-> LocatorField(fn), loc |-> cfg[LocatorField(fn)], synthetic |-> syn]

\* What an awaited extractor call may return.  page.goto(undefined) and
\* fetch(undefined) reject.  The JSON-LD fallback of part_002 is called with an
\* object literal that has no _filter, so `cfg._filter(textBlob)` throws as soon
\* as the page holds one Event node: that call returns only the empty list.
MayReturn(v, c, p) ==
  /\ c.loc # Undefined
  /\ (v = "part_002" /\ c.synthetic) => p = <<>>

\* A push that puts the new records in front.
PushPartFront(its, p) == p \o its

\* items.push(...part)
PushPart(its, p) == its \o p

\* A catch block that leaves the loop.
AfterCatchBreak(i) == [pc |-> "loop", idx |-> Len(SITES) + 1]

\* A catch block that throws again: main rejects.
AfterCatchRethrow(i) == [pc |-> "aborted", idx |-> i]

\* Where control goes after the catch block: the next iteration.
AfterCatch(i) == [pc |-> "loop", idx |-> i + 1]

\* The log entry of a source whose branch calls an extractor; start is the
\* aggregate list when the iteration began, error is what sent the iteration
\* to the catch block, why is the reason scrapeDOM gave for an empty result.
Entry(m, c) ==
  [mode |-> m, calls |-> <<c>>, outcome |-> "running", part |-> <<>>,
   snaps |-> <<>>, start |-> items, error |-> "none", why |-> "none"]

\* Whether main has a JSON-LD fallback for an empty DOM result.
HasFallback(v) == v # "part_000"

\* A main that makes the capture only for a source of mode jsonld.
SnapshotOnEmptyDirect(v, c) == c.fn = "scrapeJSONLD" /\ ~c.synthetic

\* Whether main calls the diagnostic sink when call c returned no record.
SnapshotOnEmpty(v, c) ==
  IF v = "part_000" THEN TRUE ELSE c.fn = "scrapeJSONLD"

\* The reason main passes to the sink for an empty result.
EmptyReason(v, c) ==
  IF v = "part_000" \/ c.synthetic THEN "empty" ELSE "jsonld-empty"

\* The reasons scrapeDOM has for an empty result, and the captures it makes
\* itself before returning (the first revision only).
DomWhys(v) ==
  IF v = "part_000" THEN {"no_selector", "cf_block", "reload_empty", "no_record"}
                    ELSE {"no_selector", "no_record"}
DomOwnSnaps(v, w) ==
  IF v # "part_000" THEN <<>>
  ELSE CASE w = "no_selector"  -> <<"no-selector">>
         [] w = "cf_block"     -> <<"cf-block">>
         [] w = "reload_empty" -> <<"empty">>
         [] OTHER              -> <<>>

\* How a recording can go.
RecResults == {"saved", "failed"}

\* A sink whose promise rejects when the recording fails.
SnapshotRejects(r) == IF r = "failed" THEN "rejected" ELSE "resolved"

\* saveDebugSnapshot / saveDebug: the whole body is in try/catch, the catch
\* only warns, so the promise resolves however the recording went.
SnapshotSettles(r) == "resolved"

InitMain ==
  /\ variant \in Variants
  /\ SITES \in SeqsUpTo({MkCfg(m) : m \in Modes \cup OtherModes}, MaxSources)
  /\ pc = "launch"
  /\ idx = 1
  /\ cur = NoCall
  /\ part = <<>>
  /\ items = <<>>
  /\ log = <<>>
  /\ rec = "none"
  /\ written = 0
  /\ dedup = <<>>
  /\ IdleDedup /\ IdleOut /\ IdleRerun /\ IdleScroll /\ IdleReload /\ IdleFilter /\ IdleSel /\ IdleEx

\* chromium.launch / newContext / newPage
Launch ==
  /\ pc = "launch"
  /\ pc' = "loop"
  /\ UNCHANGED <<variant, mainVars, dedupVars, outVars, filterVars, rerunVars, scrollVars, reloadVars, selVars, exVars>>

\* the session cannot be created: main rejects before any source is processed
LaunchFails ==
  /\ pc = "launch"
  /\ pc' = "aborted"
  /\ UNCHANGED <<variant, mainVars, dedupVars, outVars, filterVars, rerunVars, scrollVars, reloadVars, selVars, exVars>>

\* top of the loop body, a recognized branch: call the extractor and await it
StartSource ==
  /\ pc = "loop" /\ idx <= Len(SITES)
  /\ Extractor(variant, SITES[idx].mode) # "none"
  /\ LET c == Call(Extractor(variant, SITES[idx].mode), SITES[idx], FALSE) IN
       /\ cur' = c
       /\ log' = Append(log, Entry(SITES[idx].mode, c))
  /\ part' = <<>>
  /\ rec' = "none"
  /\ pc' = "extract"
  /\ UNCHANGED <<variant, SITES, idx, items, written, dedupVars, outVars, filterVars, rerunVars, scrollVars, reloadVars, selVars, exVars>>

\* the final else branch: warn; part_002 and part_000 continue, scraper.mjs
\* falls through to items.push(...[]) and the OK line
SkipUnknown ==
  /\ pc = "loop" /\ idx <= Len(SITES)
  /\ Extractor(variant, SITES[idx].mode) = "none"
  /\ log' = Append(log, [mode |-> SITES[idx].mode, calls |-> <<>>,
                         outcome |-> IF variant # "scraper_mjs" THEN "skip" ELSE "ok",
                         part |-> <<>>, snaps |-> <<>>, start |-> items,
                         error |-> "none", why |-> "none"])
  /\ items' = IF variant # "scraper_mjs" THEN items ELSE PushPart(items, <<>>)
  /\ part' = <<>>
  /\ rec' = "none"
  /\ idx' = idx + 1
  /\ UNCHANGED <<variant, pc, SITES, cur, written, dedupVars, outVars, filterVars, rerunVars, scrollVars, reloadVars, selVars, exVars>>

\* the awaited extractor rejects: control goes to the catch block
ExtractorThrows ==
  /\ pc = "extract"
  /\ pc' = "catch"
  /\ cur' = NoCall
  /\ log' = [log EXCEPT ![idx].error = "reject"]
  /\ UNCHANGED <<variant, SITES, idx, part, items, rec, written,
                 dedupVars, outVars, filterVars, rerunVars, scrollVars, reloadVars, selVars, exVars>>

\* the fallback call of part_002 reads a page that holds Event nodes:
\* cfg._filter is not a function, a TypeError leaves scrapeJSONLD
FallbackNoFilter ==
  /\ pc = "extract" /\ cur.synthetic /\ variant = "part_002"
  /\ log' = [log EXCEPT ![idx].error = "no_filter"]
  /\ pc' = "catch"
  /\ cur' = NoCall
  /\ UNCHANGED <<variant, SITES, idx, part, items, rec, written,
                 dedupVars, outVars, filterVars, rerunVars, scrollVars, reloadVars, selVars, exVars>>

\* items.push(...part), the OK line, and the next iteration
Finish(p, snap) ==
  /\ items' = PushPart(items, p)
  /\ part' = p
  /\ log' = [log EXCEPT ![idx].outcome = "ok", ![idx].part = p,
                        ![idx].snaps = log[idx].snaps \o snap]
  /\ cur' = NoCall
  /\ idx' = idx + 1
  /\ pc' = "loop"

\* an extractor returns a list main pushes as it is
ReturnsAndPush ==
  /\ pc = "extract"
  /\ \E p \in SeqsUpTo(MainPool, MaxPart) :
       /\ MayReturn(variant, cur, p)
       /\ p # <<>> \/ (cur.fn # "scrapeDOM" /\ ~SnapshotOnEmpty(variant, cur))
       /\ Finish(p, <<>>)
  /\ UNCHANGED <<variant, SITES, rec, written, dedupVars, outVars, filterVars, rerunVars, scrollVars, reloadVars, selVars, exVars>>

\* scrapeDOM returns no items: main calls scrapeJSONLD on a synthetic config
DomEmptyFallback ==
  /\ pc = "extract" /\ cur.fn = "scrapeDOM"
  /\ HasFallback(variant)
  /\ MayReturn(variant, cur, <<>>)
  /\ LET c == Call("scrapeJSONLD", SITES[idx], TRUE) IN
       /\ cur' = c
       /\ \E w \in DomWhys(variant) :
            log' = [log EXCEPT ![idx].calls = Append(log[idx].calls, c),
                               ![idx].why = w]
  /\ part' = <<>>
  /\ UNCHANGED <<variant, pc, SITES, idx, items, rec, written,
                 dedupVars, outVars, filterVars, rerunVars, scrollVars, reloadVars, selVars, exVars>>

\* the first revision: scrapeDOM makes its own capture (no selector, a
\* challenge page, nothing after the reload) and returns []; main has no
\* fallback and goes on to its own capture
DomEmptyCapture ==
  /\ pc = "extract" /\ cur.fn = "scrapeDOM"
  /\ ~HasFallback(variant)
  /\ MayReturn(variant, cur, <<>>)
  /\ \E w \in DomWhys(variant), r \in RecResults :
       IF DomOwnSnaps(variant, w) = <<>>
         THEN /\ log' = [log EXCEPT ![idx].why = w]
              /\ pc' = "snapshot"
              /\ UNCHANGED <<rec, cur>>
       ELSE IF SnapshotSettles(r) = "resolved"
         THEN /\ log' = [log EXCEPT ![idx].why = w,
                                    ![idx].snaps = log[idx].snaps \o DomOwnSnaps(variant, w)]
              /\ rec' = r
              /\ pc' = "snapshot"
              /\ UNCHANGED cur
         ELSE /\ log' = [log EXCEPT ![idx].why = w, ![idx].error = "recording",
                                    ![idx].snaps = log[idx].snaps \o DomOwnSnaps(variant, w)]
              /\ rec' = r
              /\ pc' = "catch"
              /\ cur' = NoCall
  /\ part' = <<>>
  /\ UNCHANGED <<variant, SITES, idx, items, written,
                 dedupVars, outVars, filterVars, rerunVars, scrollVars, reloadVars, selVars, exVars>>

\* scrapeJSONLD (mode jsonld, or the fallback) returns no items: main awaits
\* saveDebugSnapshot; in the first revision, so does any extractor but
\* scrapeDOM (DomEmptyCapture)
JsonldEmpty ==
  /\ pc = "extract" /\ cur.fn # "scrapeDOM"
  /\ SnapshotOnEmpty(variant, cur)
  /\ MayReturn(variant, cur, <<>>)
  /\ part' = <<>>
  /\ pc' = "snapshot"
  /\ UNCHANGED <<variant, SITES, idx, cur, items, log, rec, written,
                 dedupVars, outVars, filterVars, rerunVars, scrollVars, reloadVars, selVars, exVars>>

\* saveDebugSnapshot settles (it catches its own errors); then push and log
SnapshotDone ==
  /\ pc = "snapshot"
  /\ \E r \in RecResults :
       /\ rec' = r
       /\ IF SnapshotSettles(r) = "resolved"
            THEN Finish(<<>>, << EmptyReason(variant, cur) >>)
            ELSE /\ log' = [log EXCEPT ![idx].error = "recording",
                                       ![idx].snaps = Append(log[idx].snaps, EmptyReason(variant, cur))]
                 /\ pc' = "catch"
                 /\ cur' = NoCall
                 /\ UNCHANGED <<idx, part, items>>
  /\ UNCHANGED <<variant, SITES, written, dedupVars, outVars, filterVars, rerunVars, scrollVars, reloadVars, selVars, exVars>>

\* catch (e): console.error, try { await saveDebugSnapshot(..., 'error') } catch {}
CatchDone ==
  /\ pc = "catch"
  /\ log' = [log EXCEPT ![idx].outcome = "fail", ![idx].snaps = Append(log[idx].snaps, "error")]
  /\ rec' \in RecResults
  /\ idx' = AfterCatch(idx).idx
  /\ pc' = AfterCatch(idx).pc
  /\ UNCHANGED <<variant, SITES, cur, part, items, written,
                 dedupVars, outVars, filterVars, rerunVars, scrollVars, reloadVars, selVars, exVars>>

\* the loop is over: await browser.close()
Close ==
  /\ pc = "loop" /\ idx > Len(SITES)
  /\ pc' = "close"
  /\ UNCHANGED <<variant, mainVars, dedupVars, outVars, filterVars, rerunVars, scrollVars, reloadVars, selVars, exVars>>

\* after browser.close(): de-dup, slice, buildRSS, writeFileSync (synchronous)
Assemble ==
  /\ pc = "close"
  /\ pc' = "done"
  /\ written' = written + 1
  /\ LET st == DedupFrom(DedupInit, items, 1) IN
       /\ seen' = st.seen
       /\ dedup' = st.dedup
       /\ kept' = st.kept
  /\ pos' = Len(items) + 1
  /\ handed' = Truncate(dedup')
  /\ feed' = BuildRSS(variant, handed')
  /\ UNCHANGED <<variant, SITES, idx, cur, part, items, log, rec, filterVars, rerunVars, scrollVars, reloadVars, selVars, exVars>>

NextMain ==
  \/ Launch \/ LaunchFails
  \/ StartSource \/ SkipUnknown
  \/ ExtractorThrows \/ FallbackNoFilter
  \/ ReturnsAndPush \/ DomEmptyFallback \/ JsonldEmpty
  \/ SnapshotDone \/ CatchDone
  \/ Close \/ Assemble

Spec == InitMain /\ [][NextMain]_vars

\* Every await of main settles: navigation and fetches resolve or reject.
FairSpec == Spec /\ WF_vars(NextMain)

\* The three revisions of main, the first one of part_000 included.
InitDiag ==
  /\ variant \in AllVariants
  /\ SITES \in SeqsUpTo({MkCfg(m) : m \in Modes \cup OtherModes}, MaxSources)
  /\ pc = "launch"
  /\ idx = 1
  /\ cur = NoCall
  /\ part = <<>>
  /\ items = <<>>
  /\ log = <<>>
  /\ rec = "none"
  /\ written = 0
  /\ dedup = <<>>
  /\ IdleDedup /\ IdleOut /\ IdleRerun /\ IdleScroll /\ IdleReload /\ IdleFilter /\ IdleSel /\ IdleEx

NextDiag == NextMain \/ DomEmptyCapture

DiagSpec == InitDiag /\ [][NextDiag]_vars

\* ------------------------------------------------- properties of the main loop
IsPrefix(a, b) == Len(a) <= Len(b) /\ SubSeq(b, 1, Len(a)) = a

\* The aggregate list when the iteration of source i had ended.
EndOf(i) == IF i < Len(log) THEN log[i + 1].start ELSE items

\* Source i has ended (returned, failed or been skipped).
Ended(i) == i < idx

LoopOver == pc \in {"close", "done"}

RECURSIVE ConcatParts(_, _)
ConcatParts(lg, n) == IF n = 0 THEN <<>> ELSE ConcatParts(lg, n - 1) \o lg[n].part

\* C1: a source whose extractor call failed has appended nothing to the
\* aggregate list, what the sources before it appended is still there (the
\* list it started from is a prefix of the list ever after), and the loop goes
\* on to the sources after it: when the loop is over every source of the list
\* has been dispatched, a recognized one with an extractor call.
C1_FailureIsolated ==
  /\ \A i \in 1..Len(log) :
       log[i].outcome = "fail" =>
         /\ EndOf(i) = log[i].start
         /\ IsPrefix(log[i].start, items)
         /\ log[i].part = <<>>
  /\ \A i \in 1..Len(log) : log[i].mode = SITES[i].mode
  /\ LoopOver =>
       /\ Len(log) = Len(SITES)
       /\ \A j \in 1..Len(log) :
            Extractor(variant, SITES[j].mode) # "none" => log[j].calls # <<>>

\* C1 witness: the loop is over, the first source returned a record, the
\* second one failed, and the record is still the aggregate list.
C1_Witness ==
  /\ LoopOver /\ Len(log) = 2
  /\ log[1].outcome = "ok" /\ log[1].part # <<>>
  /\ log[2].outcome = "fail"
  /\ items = log[1].part

AllFailedOrSkipped ==
  \A i \in 1..Len(log) : log[i].outcome = "fail" \/ log[i].calls = <<>>

\* C2: once the browser session exists (the loop is entered) the run reaches
\* the assemble step and the feed has been written exactly once; the feed is
\* never written twice; and a run in which every source failed or was skipped
\* writes a feed with no item.
C2_FeedWrittenOnce ==
  /\ (pc = "loop") ~> (pc = "done" /\ written = 1)
  /\ [](written <= 1)
  /\ []((pc # "done") => written = 0)
  /\ []((pc = "done" /\ AllFailedOrSkipped) => (written = 1 /\ feed = <<>>))

\* C2 witness: the run is over, one source failed, one was skipped, and the
\* feed was written once with no item.
C2_Witness ==
  /\ pc = "done" /\ written = 1 /\ feed = <<>>
  /\ Len(log) = 2
  /\ \E i \in 1..2 : log[i].outcome = "fail"
  /\ \E i \in 1..2 : log[i].calls = <<>>

\* The extractor and the locator the five modes name.
ModeExtractor(m) ==
  CASE m = "dom"    -> "scrapeDOM"
    [] m = "jsonld" -> "scrapeJSONLD"
    [] m = "json"   -> "scrapeJSON"
    [] m = "ics"    -> "scrapeICS"
    [] m = "rss"    -> "scrapeRSS"

ModeLocator(m) ==
  CASE m \in {"dom", "jsonld"} -> "url"
    [] m = "json" -> "api"
    [] m = "ics"  -> "ics"
    [] m = "rss"  -> "rss"

\* C7: a source with one of the five modes is handled by that mode's
\* extractor, which reads that mode's locator; it is never handled by another
\* mode's extractor nor by the unknown-mode branch.
C7_RoutedByMode ==
  \A i \in 1..Len(log) :
    log[i].mode \in Modes =>
      /\ log[i].calls # <<>>
      /\ log[i].calls[1].fn = ModeExtractor(log[i].mode)
      /\ log[i].calls[1].field = ModeLocator(log[i].mode)

\* C8: a source with a mode outside the five is skipped: no extractor call
\* (so no navigation and no fetch), no snapshot, no record added, no failure,
\* and the loop goes on to the next source.
C8_UnknownSkipped ==
  /\ \A i \in 1..Len(log) :
       log[i].mode \notin Modes =>
         /\ log[i].calls = <<>>
         /\ log[i].snaps = <<>>
         /\ log[i].outcome # "fail"
         /\ log[i].outcome # "running"
         /\ EndOf(i) = log[i].start
         /\ Ended(i)
  /\ (pc = "extract" \/ pc = "snapshot" \/ pc = "catch") => SITES[idx].mode \in Modes
  /\ LoopOver => Len(log) = Len(SITES)

\* C8 witness: the loop is over, the first source had an unknown mode, and the
\* second one was dispatched and returned a record.
C8_Witness ==
  /\ LoopOver /\ Len(log) = 2
  /\ log[1].mode \notin Modes
  /\ log[2].outcome = "ok" /\ log[2].part # <<>>

\* C9: the sources are processed one at a time in list order: the only source
\* whose extraction can be in progress is the last one started, which is the
\* source the loop stands at; the sources started are the first sources of
\* the list; and the aggregate list is the concatenation of the lists the
\* sources returned, in list order.
C9_Sequential ==
  /\ \A i \in 1..Len(log) :
       /\ log[i].mode = SITES[i].mode
       /\ log[i].outcome = "running" => (i = Len(log) /\ i = idx)
       /\ i < Len(log) => Ended(i)
  /\ Len(log) <= Len(SITES)
  /\ (cur # NoCall) => (Len(log) = idx /\ log[idx].outcome = "running")
  /\ items = ConcatParts(log, Len(log))

\* C9 witness: two sources returned different records and the loop is over.
C9_Witness ==
  /\ LoopOver /\ Len(log) = 2
  /\ log[1].part # <<>> /\ log[2].part # <<>>
  /\ log[1].part # log[2].part

\* ------------------------------------------------------------ the de-dup loop
\* The de-dup loop of main on any aggregate list, one iteration at a time.
InitDedup ==
  /\ variant \in Variants
  /\ items \in SeqsUpTo(DedupPool, MaxLen)
  /\ pc = "dedup"
  /\ seen = DedupInit.seen /\ dedup = DedupInit.dedup /\ kept = DedupInit.kept
  /\ pos = 1
  /\ IdleMain /\ IdleOut /\ IdleRerun /\ IdleScroll /\ IdleReload /\ IdleFilter /\ IdleSel /\ IdleEx

\* one iteration of `for (const it of items)`
DedupIter ==
  /\ pc = "dedup" /\ pos <= Len(items)
  /\ LET st == DedupStep([seen |-> seen, dedup |-> dedup, kept |-> kept], items[pos], pos) IN
       /\ seen' = st.seen
       /\ dedup' = st.dedup
       /\ kept' = st.kept
  /\ pos' = pos + 1
  /\ UNCHANGED <<variant, pc, mainVars, outVars, filterVars, rerunVars, scrollVars, reloadVars, selVars, exVars>>

\* the loop is over
DedupDone ==
  /\ pc = "dedup" /\ pos > Len(items)
  /\ pc' = "deduped"
  /\ UNCHANGED <<variant, mainVars, dedupVars, outVars, filterVars, rerunVars, scrollVars, reloadVars, selVars, exVars>>

\* the de-dup loop run again, on its own result
DedupAgain ==
  /\ pc = "deduped" /\ items # dedup
  /\ items' = dedup
  /\ pc' = "dedup"
  /\ seen' = DedupInit.seen /\ dedup' = DedupInit.dedup /\ kept' = DedupInit.kept
  /\ pos' = 1
  /\ UNCHANGED <<variant, SITES, idx, cur, part, log, rec, written, outVars, filterVars, rerunVars, scrollVars, reloadVars, selVars, exVars>>

NextDedup == DedupIter \/ DedupDone \/ DedupAgain

DedupSpec == InitDedup /\ [][NextDedup]_vars

\* The normalized title, description and link of a record.
Triple(r) == <<norm(r.title), norm(r.description), norm(r.link)>>

\* C3: after the de-dup loop no two retained records have equal normalized
\* title, description and link, and every retained record is the record of
\* the aggregate list that comes first among those with its triple: it stands
\* at a position of the list before which no record has the same triple, and
\* the retained records keep the order of the list.
C3_FirstPerKey ==
  pc = "deduped" =>
    /\ \A i, j \in 1..Len(dedup) : i < j => Triple(dedup[i]) # Triple(dedup[j])
    /\ Len(kept) = Len(dedup)
    /\ \A n \in 1..Len(dedup) :
         /\ kept[n] \in 1..Len(items)
         /\ dedup[n] = items[kept[n]]
         /\ \A i \in 1..(kept[n] - 1) : Triple(items[i]) # Triple(items[kept[n]])
         /\ n > 1 => kept[n - 1] < kept[n]

\* C3 witness: the loop is over on a list in which a record is followed by
\* one that is written differently and has the same triple; the first of the
\* two is retained and the second is not.
C3_Witness ==
  /\ pc = "deduped" /\ Len(items) >= 3
  /\ \E i, j \in 1..Len(items) :
       /\ i < j /\ items[i] # items[j] /\ Triple(items[i]) = Triple(items[j])
       /\ \E n \in 1..Len(kept) : kept[n] = i
       /\ \A n \in 1..Len(kept) : kept[n] # j
  /\ Len(dedup) >= 2

\* C4: de-duplication is idempotent and does not grow the list: the loop run
\* on its own result returns that result, and its result is no longer than
\* the list it was given; the loop, run one iteration at a time, ends with
\* the result of the whole loop.
C4_Idempotent ==
  /\ DedupAll(DedupAll(items)) = DedupAll(items)
  /\ Len(DedupAll(items)) <= Len(items)
  /\ pc = "deduped" => dedup = DedupAll(items) /\ DedupAll(dedup) = dedup

\* C4 witness: the loop has dropped a record, has run again on its own
\* result, and has returned it unchanged.
C4_Witness ==
  /\ pc = "deduped"
  /\ items = dedup /\ Len(dedup) >= 2
  /\ DedupAll(items) = items

\* ------------------------------------------------- slice(0, 500) and buildRSS
\* The n-th record of a long de-duplicated list: every record has its own guid
\* and every second one an image.
CapRec(n) ==
  [title |-> <<"t">>, link |-> <<"u">>, guid |-> <<n>>, pubDate |-> <<"now">>,
   description |-> <<"d">>, image |-> IF n % 2 = 0 THEN <<"i">> ELSE <<>>]

InitCap ==
  /\ variant \in Variants
  /\ pc = "cap"
  /\ items = <<>>
  /\ dedup = <<>>
  /\ IdleMain /\ IdleDedup /\ IdleOut /\ IdleRerun /\ IdleScroll /\ IdleReload /\ IdleFilter /\ IdleSel /\ IdleEx

\* the de-dup loop has pushed one more record
CapGrow ==
  /\ pc = "cap" /\ Len(dedup) < MaxDedup
  /\ dedup' = Append(dedup, CapRec(Len(dedup) + 1))
  /\ UNCHANGED <<variant, pc, mainVars, seen, kept, pos, outVars, filterVars, rerunVars, scrollVars, reloadVars, selVars, exVars>>

\* const rss = buildRSS(dedup.slice(0, 500))
CapAssemble ==
  /\ pc = "cap"
  /\ pc' = "capped"
  /\ handed' = Truncate(dedup)
  /\ feed' = BuildRSS(variant, handed')
  /\ UNCHANGED <<variant, mainVars, dedupVars, filterVars, rerunVars, scrollVars, reloadVars, selVars, exVars>>

NextCap == CapGrow \/ CapAssemble

CapSpec == InitCap /\ [][NextCap]_vars

\* C5: the list handed to buildRSS is the first min(500, n) records of the n
\* de-duplicated records, in their order, and the feed has one item node per
\* handed record, in the same order (the node of a record carries its title,
\* link, guid and date).
C5_CapAndOrder ==
  pc = "capped" =>
    LET n == Len(dedup)
        m == IF n < 500 THEN n ELSE 500
    IN /\ Len(handed) = m
       /\ \A j \in 1..m : handed[j] = dedup[j]
       /\ Len(feed) = m
       /\ \A j \in 1..m :
            /\ feed[j].guid = handed[j].guid
            /\ feed[j].title = handed[j].title
            /\ feed[j].link = handed[j].link
            /\ feed[j].pubDate = handed[j].pubDate

\* C5 witness: 700 de-duplicated records have given a feed of 500 item nodes.
C5_Witness ==
  /\ pc = "capped"
  /\ Len(dedup) = 700
  /\ Len(handed) = 500 /\ Len(feed) = 500
  /\ feed[500].guid = dedup[500].guid

\* ------------------------------------------- applyDefaults and cfg._filter
\* The include and exclude terms of the model.
Terms == { <<"a">>, <<"B">> }
\* The characters of the texts given to the predicate.
BlobChars == {"a", "B", "c"}

NoFilters ==
  [present |-> FALSE, hasInclude |-> FALSE, include |-> <<>>,
   hasExclude |-> FALSE, exclude |-> <<>>]

\* cfg.filters: absent, or an object whose include and exclude are each
\* absent or a list of terms (the empty list too).
FilterConfigs ==
  {NoFilters} \cup
  { [present |-> TRUE, hasInclude |-> hi, include |-> inc,
     hasExclude |-> he, exclude |-> exc] :
      hi \in BOOLEAN, he \in BOOLEAN,
      inc \in SeqsUpTo(Terms, MaxTerms), exc \in SeqsUpTo(Terms, MaxTerms) }

\* A filter configuration as the program can hold it: an absent list is empty.
WellFormed(f) ==
  /\ (~f.hasInclude => f.include = <<>>)
  /\ (~f.hasExclude => f.exclude = <<>>)

\* lst.some(w => t.includes(w.toLowerCase()))
some(lst, t) == \E i \in 1..Len(lst) : includes(t, toLowerCase(lst[i]))

\* cfg._filter as applyDefaults builds it.  An array, the empty one too, is
\* truthy, so a present include list is always consulted.
Filter(f, txt) ==
  IF ~f.present THEN TRUE
  ELSE LET t == toLowerCase(txt) IN
         IF f.hasExclude /\ some(f.exclude, t) THEN FALSE
         ELSE IF f.hasInclude /\ ~some(f.include, t) THEN FALSE
         ELSE TRUE

InitFilter ==
  /\ variant = "part_002"
  /\ pc = "config"
  /\ filters \in { f \in FilterConfigs : WellFormed(f) }
  /\ blob = <<>> /\ verdict = "none"
  /\ items = <<>> /\ dedup = <<>>
  /\ IdleMain /\ IdleDedup /\ IdleOut /\ IdleRerun /\ IdleScroll /\ IdleReload /\ IdleSel /\ IdleEx

\* applyDefaults(cfg): cfg._filter is set
ApplyDefaults ==
  /\ pc = "config"
  /\ pc' = "ready"
  /\ UNCHANGED <<variant, mainVars, dedupVars, outVars, filterVars, rerunVars, scrollVars, reloadVars, selVars, exVars>>

\* cfg._filter(txt)
CallFilter ==
  /\ pc = "ready"
  /\ \E txt \in SeqsUpTo(BlobChars, MaxBlob) :
       /\ blob' = txt
       /\ verdict' = IF Filter(filters, txt) THEN "keep" ELSE "drop"
  /\ UNCHANGED <<variant, pc, mainVars, dedupVars, outVars, filters, rerunVars, scrollVars, reloadVars,
                 selVars, exVars>>

NextFilter == ApplyDefaults \/ CallFilter

FilterSpec == InitFilter /\ [][NextFilter]_vars

\* The terms a source configures, and the case-insensitive substring test.
ExcludeTerms == { filters.exclude[i] : i \in 1..Len(filters.exclude) }
IncludeTerms == { filters.include[i] : i \in 1..Len(filters.include) }
ContainsCI(txt, w) == includes(toLowerCase(txt), toLowerCase(w))

\* C6: the predicate keeps a text if and only if the text contains no exclude
\* term and, when include terms are configured, at least one include term
\* (so exclude wins when both occur); with no filters every text is kept.
C6_FilterPredicate ==
  verdict # "none" =>
    /\ (verdict = "keep") <=>
         /\ \A w \in ExcludeTerms : ~ContainsCI(blob, w)
         /\ (IncludeTerms # {} => \E w \in IncludeTerms : ContainsCI(blob, w))
    /\ ~filters.present => verdict = "keep"

\* ------------------------------------------------------ firstExistingSelector
\* The characters of the candidate strings.
CandChars == {",", " ", "a", "b"}

\* The timeout arguments of the model: none, and two polls.
Timeouts == {0, 2 * PollMs}

\* String.prototype.split(',')
RECURSIVE Split(_)
Split(s) ==
  IF \A i \in 1..Len(s) : s[i] # ","
    THEN <<s>>
    ELSE LET c == CHOOSE i \in 1..Len(s) : s[i] = "," /\ \A j \in 1..(i - 1) : s[j] # ","
         IN <<SubSeq(s, 1, c - 1)>> \o Split(SubSeq(s, c + 1, Len(s)))

NonEmpty(x) == x # <<>>

\* A list whose entries are not trimmed.
CandidateListNoTrim(s) == SelectSeq(Split(s), NonEmpty)

\* candidates.split(',').map(s => s.trim()).filter(Boolean)
CandidateList(s) ==
  SelectSeq([i \in 1..Len(Split(s)) |-> trim(Split(s)[i])], NonEmpty)

Returned(kind, sel) == [kind |-> kind, sel |-> sel]

\* A deadline test that is always met.
TimedOutAtOnce(el, t) == TRUE

\* Date.now() - start > timeoutMs
TimedOut(el, t) == el > t

InitSel ==
  /\ variant \in Variants
  /\ pc = "sel_call"
  /\ candidates \in
       {[defined |-> FALSE, text |-> <<>>]} \cup
       { [defined |-> TRUE, text |-> t] : t \in SeqsUpTo(CandChars, MaxCand) }
  /\ timeoutMs \in Timeouts
  /\ list = <<>> /\ elapsed = 0 /\ k = 1 /\ roundLog = <<>> /\ polls = 0 /\ rounds = 0
  /\ ret = Returned("none", <<>>)
  /\ items = <<>> /\ dedup = <<>>
  /\ IdleMain /\ IdleDedup /\ IdleOut /\ IdleRerun /\ IdleScroll /\ IdleReload /\ IdleFilter /\ IdleEx

\* the call: part_002 returns null for a missing or empty candidate string;
\* scraper.mjs calls split on it, which throws when it is undefined
SelEnter ==
  /\ pc = "sel_call"
  /\ IF ~candidates.defined
       THEN /\ ret' = Returned(IF variant = "part_002" THEN "null" ELSE "threw", <<>>)
            /\ pc' = "sel_done"
            /\ UNCHANGED list
       ELSE IF candidates.text = <<>> /\ variant = "part_002"
       THEN /\ ret' = Returned("null", <<>>)
            /\ pc' = "sel_done"
            /\ UNCHANGED list
       ELSE /\ list' = CandidateList(candidates.text)
            /\ pc' = "sel_round"
            /\ UNCHANGED ret
  /\ elapsed' = 0 /\ k' = 1 /\ roundLog' = <<>> /\ polls' = 0 /\ rounds' = 0
  /\ UNCHANGED <<variant, mainVars, dedupVars, outVars, filterVars, rerunVars, scrollVars, reloadVars, exVars, candidates, timeoutMs>>

\* await page.locator(sel).count() gives a positive count: return sel
SelCountSome ==
  /\ pc = "sel_round" /\ k <= Len(list)
  /\ \E d \in {0, PollMs} : elapsed' = elapsed + d
  /\ ret' = Returned("sel", list[k])
  /\ pc' = "sel_done"
  /\ UNCHANGED <<variant, mainVars, dedupVars, outVars, filterVars, rerunVars, scrollVars, reloadVars, exVars,
                 candidates, timeoutMs, list, k, roundLog, polls, rounds>>

\* count() gives 0: the next candidate
SelCountZero ==
  /\ pc = "sel_round" /\ k <= Len(list)
  /\ \E d \in {0, PollMs} : elapsed' = elapsed + d
  /\ roundLog' = Append(roundLog, [sel |-> list[k], res |-> "zero"])
  /\ k' = k + 1
  /\ UNCHANGED <<variant, pc, mainVars, dedupVars, outVars, filterVars, rerunVars, scrollVars, reloadVars, exVars,
                 candidates, timeoutMs, list, polls, rounds, ret>>

\* count() rejects: part_002 catches and goes on, scraper.mjs lets it out
SelCountError ==
  /\ pc = "sel_round" /\ k <= Len(list)
  /\ \E d \in {0, PollMs} : elapsed' = elapsed + d
  /\ IF variant = "part_002"
       THEN /\ roundLog' = Append(roundLog, [sel |-> list[k], res |-> "error"])
            /\ k' = k + 1
            /\ UNCHANGED <<pc, ret>>
       ELSE /\ ret' = Returned("threw", <<>>)
            /\ pc' = "sel_done"
            /\ UNCHANGED <<roundLog, k>>
  /\ UNCHANGED <<variant, mainVars, dedupVars, outVars, filterVars, rerunVars, scrollVars, reloadVars, exVars,
                 candidates, timeoutMs, list, polls, rounds>>

\* the round is over: if (Date.now() - start > timeoutMs) return null
SelRoundEnd ==
  /\ pc = "sel_round" /\ k > Len(list)
  /\ IF TimedOut(elapsed, timeoutMs)
       THEN ret' = Returned("null", <<>>) /\ pc' = "sel_done"
       ELSE pc' = "sel_sleep" /\ UNCHANGED ret
  /\ rounds' = rounds + 1
  /\ UNCHANGED <<variant, mainVars, dedupVars, outVars, filterVars, rerunVars, scrollVars, reloadVars, exVars,
                 candidates, timeoutMs, list, elapsed, k, roundLog, polls>>

\* await sleep(250) resolves: the next round
SelWake ==
  /\ pc = "sel_sleep"
  /\ elapsed' = elapsed + PollMs
  /\ polls' = polls + 1
  /\ k' = 1
  /\ roundLog' = <<>>
  /\ pc' = "sel_round"
  /\ UNCHANGED <<variant, mainVars, dedupVars, outVars, filterVars, rerunVars, scrollVars, reloadVars, exVars,
                 candidates, timeoutMs, list, rounds, ret>>

NextSel ==
  \/ SelEnter
  \/ SelCountSome \/ SelCountZero \/ SelCountError
  \/ SelRoundEnd \/ SelWake

SelSpec == InitSel /\ [][NextSel]_vars

\* Time advances: a pending count() or sleep() settles.
SelFairSpec == SelSpec /\ WF_vars(NextSel)

\* The candidates of a candidate string, read off the string: a piece starts
\* at the start of the string or after a comma and runs to the next comma.
PieceStarts(s) == {1} \cup { i + 1 : i \in { j \in 1..Len(s) : s[j] = "," } }
PieceEnd(s, a) ==
  IF \E c \in a..Len(s) : s[c] = ","
    THEN (CHOOSE c \in a..Len(s) : s[c] = "," /\ \A j \in a..(c - 1) : s[j] # ",") - 1
    ELSE Len(s)
Piece(s, a) == trim(SubSeq(s, a, PieceEnd(s, a)))
CandidateStarts(s) == { a \in PieceStarts(s) : Piece(s, a) # <<>> }

\* C10: a selector the resolver returns is one of the trimmed non-empty
\* candidates of the string, and every candidate before it in the string was
\* checked in the same poll round, in order, with a count of zero or an
\* error; nothing else was checked in that round.
C10_FirstMatchOfRound ==
  ret.kind = "sel" =>
    LET s == candidates.text IN
      /\ candidates.defined
      /\ ret.sel # <<>>
      /\ \E b \in CandidateStarts(s) :
           /\ Piece(s, b) = ret.sel
           /\ LET before == { a \in CandidateStarts(s) : a < b } IN
                /\ Len(roundLog) = Cardinality(before)
                /\ \A a \in before :
                     LET n == Cardinality({ x \in before : x <= a }) IN
                       /\ roundLog[n].sel = Piece(s, a)
                       /\ roundLog[n].res \in {"zero", "error"}

\* C10 witness: after a sleep, in a later round, the second candidate is
\* returned and the first one was checked with a count of zero in that round.
C10_Witness ==
  /\ ret.kind = "sel"
  /\ polls >= 1
  /\ Len(roundLog) = 1
  /\ roundLog[1].res = "zero"
  /\ roundLog[1].sel # ret.sel

\* The call was made without a usable candidate string: none at all, or (in
\* part_002, whose guard is !candidates) the empty string.
NoCandidateString ==
  \/ ~candidates.defined
  \/ candidates.text = <<>> /\ variant = "part_002"

Origins == {"https://x.example", "https://y.example"}
HasScheme(u) == u # <<>> /\ u[1] \in Origins

StripQuery(u) ==
  IF \E i \in 1..Len(u) : u[i] = "?"
    THEN SubSeq(u, 1, (CHOOSE i \in 1..Len(u) : u[i] = "?" /\ \A j \in 1..(i - 1) : u[j] # "?") - 1)
    ELSE u

\* the URL up to and including the last "/" of its path
Dir(u) ==
  LET p == StripQuery(u) IN
    IF \E i \in 2..Len(p) : p[i] = "/"
      THEN SubSeq(p, 1, CHOOSE i \in 2..Len(p) : p[i] = "/" /\ \A j \in (i + 1)..Len(p) : p[j] # "/")
      ELSE <<p[1], "/">>

\* new URL(href, base).href for a valid base
Resolve(href, base) ==
  IF HasScheme(href) THEN (IF Len(href) = 1 THEN href \o <<"/">> ELSE href)
  ELSE IF href = <<>> THEN base
  ELSE IF href[1] = "/" THEN <<base[1]>> \o href
  ELSE IF href[1] = "?" THEN StripQuery(base) \o href
  ELSE Dir(base) \o href

\* try { return new URL(href, base).href; } catch { return href || base; }
toAbs(href, base) ==
  IF HasScheme(base) THEN Resolve(href, base)
  ELSE IF href # <<>> THEN href ELSE base

\* The date texts Date can parse, and new Date(text); the output of
\* toUTCString is one of them.
ParseableDates == {<<"2024-05-01">>}
ParseDate(d) ==
  IF d \in ParseableDates THEN [valid |-> TRUE, at |-> d]
  ELSE IF d # <<>> /\ Head(d) = "utc" THEN [valid |-> TRUE, at |-> Tail(d)]
  ELSE [valid |-> FALSE, at |-> <<>>]
\* A clock read that differs from one run to the next.
NowPerRun == [valid |-> TRUE, at |-> <<clock, IF run = 1 THEN "first" ELSE "second">>]

\* new Date(): the run time
Now == [valid |-> TRUE, at |-> <<clock>>]
\* Date.prototype.toUTCString
toUTCString(x) == IF x.valid THEN <<"utc">> \o x.at ELSE <<"Invalid Date">>

\* (d ? new Date(d) : new Date()).toUTCString()
rfc822(d) == toUTCString(IF d # <<>> THEN ParseDate(d) ELSE Now)

\* (cfg.town ? `[${cfg.town}] ` : '')
TownPrefix(town) == IF town = <<>> THEN <<>> ELSE <<"[">> \o town \o <<"]", " ">>

\* [a, b].filter(Boolean).join(sep), sep being an em-dash between two spaces,
\* written here as the token " -- "
JoinDash(a, b) ==
  IF a = <<>> THEN b ELSE IF b = <<>> THEN a ELSE a \o <<" -- ">> \o b

\* ------------------------------------------------------------------ scrapeDOM
\* The cards of a page: at most MaxCards.
MaxCards == 1

\* A candidate of a per-field list is a selector the engine accepts ("ok") or
\* a malformed one ("bad"), whose lookup rejects.
SelLists == {<<"ok">>, <<"bad", "ok">>, <<"ok", "bad">>}

DomUrl == <<"https://x.example", "/", "list">>

\* hrefs: none, root-relative, path-relative, query-relative, absolute
Hrefs ==
  { <<>>, <<"/", "events", "/", "42">>, <<"events", "/", "42">>, <<"?", "id=42">>,
    <<"https://y.example", "/", "e">> }

DateTexts == {<<>>, <<"2024-05-01">>, <<"Friday">>}

\* A card as the candidate selectors see it: the text of its title element,
\* the href of its anchor and the text of its date element, <<>> when the
\* element is missing or empty; img says whether an image candidate matches
\* an element of the card (el) and holds the first value among that element's
\* src, data-src, data-original, data-lazy, data-image, srcset and style
\* attributes (src); detail is the image the page behind the card's link
\* offers, made absolute, <<>> when it offers none or cannot be fetched.
NoImg == [el |-> FALSE, src |-> <<>>]

\* The cards of the extractor's specification hold no image element.
Cards ==
  [title : {<<>>, <<"Jazz">>}, href : Hrefs, date : DateTexts, img : {NoImg}, detail : {<<>>}]

\* cfg.max || 120, and cfg.max || 220 in the first revision
DefaultMax == 120
FirstDefaultMax == 220

DomConfigs ==
  { c \in [fn : {"scrapeDOM"}, url : {DomUrl}, town : {<<>>}, venue : {<<>>},
           item : SelLists, title : SelLists, link : SelLists, date : SelLists,
           image : SelLists, max : {0}] :
      Cardinality({ f \in {"item", "title", "link", "date", "image"} : c[f] # <<"ok">> }) <= 1 }

\* One per-field candidate loop over one card: el.$(sel) rejects for a
\* malformed selector; a value ends the loop.
RECURSIVE Loop(_, _)
Loop(cands, val) ==
  IF cands = <<>> THEN [threw |-> FALSE, val |-> <<>>]
  ELSE IF Head(cands) = "bad" THEN [threw |-> TRUE, val |-> <<>>]
  ELSE IF val # <<>> THEN [threw |-> FALSE, val |-> val]
  ELSE Loop(Tail(cands), val)

\* const take = Math.min(cards.length, cfg.max || 120)
Take(v, cfg, cards) ==
  LET m == IF cfg.max # 0 THEN cfg.max
           ELSE IF v = "part_000" THEN FirstDefaultMax ELSE DefaultMax
  IN IF Len(cards) < m THEN Len(cards) ELSE m

\* A first revision that reloads whatever the first pass emitted.
ReloadWantedAlways(v, o) == v = "part_000"

\* if (out.length === 0) { await page.reload(...); ... }: first revision only
ReloadWanted(v, o) == v = "part_000" /\ Len(o) = 0

\* imageUrl = toAbs(src || dataSrc || ... || '', cfg.url) for a matched
\* image element
CardImage(cfg, c) == IF c.img.el THEN toAbs(c.img.src, cfg.url) ELSE <<>>

\* fetchDetailImage(href): never rejects
fetchDetailImage(c) == c.detail

\* if (!imageUrl && href) imageUrl = await fetchDetailImage(href)
ImageOrDetail(cfg, c, href) ==
  IF CardImage(cfg, c) = <<>> /\ href # <<>> THEN fetchDetailImage(c) ELSE CardImage(cfg, c)

\* the body of the for loop over cards, for one card; scraper.mjs has no
\* image loop and no detail-page fallback
CardStep(v, cfg, c) ==
  LET t   == Loop(cfg.title, c.title)
      a   == Loop(cfg.link, c.href)
      d   == Loop(cfg.date, c.date)
      i   == IF v = "scraper_mjs" THEN [threw |-> FALSE, val |-> <<>>]
                                  ELSE Loop(cfg.image, CardImage(cfg, c))
      href == IF a.val # <<>> /\ a.val[1] = "/" THEN toAbs(a.val, cfg.url) ELSE a.val
  IN IF t.threw \/ a.threw \/ d.threw \/ i.threw
       THEN [threw |-> TRUE, push |-> <<>>]
     ELSE IF t.val = <<>> /\ href = <<>>
       THEN [threw |-> FALSE, push |-> <<>>]
     ELSE [threw |-> FALSE,
           push  |-> << [title       |-> TownPrefix(cfg.town) \o t.val,
                         link        |-> IF href # <<>> THEN href ELSE cfg.url,
                         pubDate     |-> rfc822(d.val),
                         description |-> JoinDash(cfg.venue, d.val),
                         image       |-> IF v = "scraper_mjs" THEN <<>>
                                         ELSE ImageOrDetail(cfg, c, href)] >>]

InitDom ==
  /\ variant \in Variants
  /\ pc = "dom_goto"
  /\ xcfg \in DomConfigs
  /\ body \in SeqsUpTo(Cards, MaxCards)
  /\ xi = 1 /\ out = <<>> /\ xret = "running"
  /\ items = <<>> /\ dedup = <<>>
  /\ IdleMain /\ IdleDedup /\ IdleOut /\ IdleRerun /\ IdleScroll /\ IdleReload /\ IdleFilter /\ IdleSel

\* await page.goto(cfg.url, ...) and the sleep after it
DomGoto ==
  /\ pc = "dom_goto"
  /\ \/ pc' = "dom_resolve" /\ UNCHANGED xret
     \/ pc' = "dom_done" /\ xret' = "nav_error"
  /\ UNCHANGED <<variant, mainVars, dedupVars, outVars, filterVars, rerunVars, scrollVars, reloadVars, selVars, xcfg, body, xi, out>>

\* const itemSel = await firstExistingSelector(page, cfg.item, 8000): null,
\* a selector, or (scraper.mjs, whose resolver does not catch) a rejection
\* when a malformed candidate is looked up; on null the first revision makes
\* the 'no-selector' capture before it returns
DomResolve ==
  /\ pc = "dom_resolve"
  /\ \/ /\ variant # "scraper_mjs" \/ xcfg.item[1] # "bad"
        /\ \/ pc' = "dom_done" /\ xret' = "returned"
           \/ pc' = "dom_cards" /\ UNCHANGED xret
     \/ /\ variant = "scraper_mjs" /\ xcfg.item # <<"ok">>
        /\ pc' = "dom_done" /\ xret' = "selector_error"
  /\ captures' = IF variant = "part_000" /\ pc' = "dom_done"
                   THEN Append(captures, "no-selector") ELSE captures
  /\ UNCHANGED <<variant, mainVars, dedupVars, outVars, filterVars, rerunVars, scrollVars,
                 reloads, selVars, xcfg, body, xi, out>>

\* one iteration of for (let i = 0; i < take; i++)
DomCard ==
  /\ pc = "dom_cards" /\ xi <= Take(variant, xcfg, body)
  /\ LET r == CardStep(variant, xcfg, body[xi]) IN
       IF r.threw
         THEN pc' = "dom_done" /\ xret' = "selector_error" /\ UNCHANGED <<xi, out>>
         ELSE out' = out \o r.push /\ xi' = xi + 1 /\ UNCHANGED <<pc, xret>>
  /\ UNCHANGED <<variant, mainVars, dedupVars, outVars, filterVars, rerunVars, scrollVars, reloadVars, selVars, xcfg, body>>

\* return { items: out, debug }; return out in the first revision, when the
\* reload block is not entered
DomReturn ==
  /\ pc = "dom_cards" /\ xi > Take(variant, xcfg, body)
  /\ ~ReloadWanted(variant, out)
  /\ pc' = "dom_done" /\ xret' = "returned"
  /\ UNCHANGED <<variant, mainVars, dedupVars, outVars, filterVars, rerunVars, scrollVars, reloadVars, selVars, xcfg, body, xi, out>>

NextDom == DomGoto \/ DomResolve \/ DomCard \/ DomReturn

DomSpec == InitDom /\ [][NextDom]_vars

\* C12: no lookup of a malformed candidate, in the item-container resolver
\* or in a per-item title, link, date or image loop, ends the extraction
\* with an error.
C12_SelectorErrorIsNoMatch == xret # "selector_error"

\* The cards that carry a title or an href, among those already processed.
HasTitleOrHref(c) == c.title # <<>> \/ c.href # <<>>
KeptCards == SelectSeq(SubSeq(body, 1, xi - 1), HasTitleOrHref)

\* C20: every record the DOM extractor has pushed has an absolute link: the
\* card's href resolved against the source url, or the source url when the
\* card has no href.
C20_LinksAbsolute ==
  (xcfg.fn = "scrapeDOM" /\ xret \in {"running", "returned"}) =>
    /\ Len(out) = Len(KeptCards)
    /\ \A j \in 1..Len(out) :
         /\ HasScheme(out[j].link)
         /\ out[j].link = IF KeptCards[j].href = <<>> THEN xcfg.url
                          ELSE Resolve(KeptCards[j].href, xcfg.url)

\* ------------------------------------------------- fallback and diagnostics
\* The entries of dom sources whose DOM extraction returned no item.
DomCameBackEmpty(i) == log[i].mode = "dom" /\ log[i].why # "none"

\* C13: when the DOM extraction of a dom source yields no item, the JSON-LD
\* extractor is called once on the same url with the synthetic configuration,
\* the call raises no error of its own, and what it returns is what the
\* source contributes.
C13_FallbackContributes ==
  \A i \in 1..Len(log) :
    (Ended(i) /\ DomCameBackEmpty(i)) =>
      /\ Len(log[i].calls) = 2
      /\ log[i].calls[2].fn = "scrapeJSONLD"
      /\ log[i].calls[2].synthetic
      /\ log[i].calls[2].field = "url"
      /\ log[i].error # "no_filter"
      /\ (log[i].outcome = "ok" => EndOf(i) = log[i].start \o log[i].part)

\* C14: a source of a recognized mode that has ended with no record
\* contributed, or with its extractor throwing, has had the diagnostic sink
\* called for it.
C14_SinkOnEmptyOrThrow ==
  \A i \in 1..Len(log) :
    (Ended(i) /\ log[i].mode \in Modes
       /\ (log[i].outcome = "fail" \/ log[i].part = <<>>)) =>
      log[i].snaps # <<>>

\* C15: after a recording that failed, the aggregate list is what it was
\* when the source began, the failure is not the source's error, the source
\* is logged OK unless its extractor threw, and the loop has moved on to the
\* next source (or, inside scrapeDOM of the first revision, main goes on to
\* its own capture).
C15_RecordingFailureContained ==
  rec = "failed" =>
    /\ log # <<>>
    /\ pc \in {"snapshot", "loop", "close", "done"}
    /\ LET e == log[Len(log)] IN
         /\ items = e.start
         /\ e.error # "recording"
         /\ IF pc = "snapshot"
              THEN e.outcome = "running" /\ idx = Len(log)
              ELSE /\ idx = Len(log) + 1
                   /\ e.outcome = IF e.error = "none" THEN "ok" ELSE "fail"

\* C15 witness: the capture for an empty result failed, the source is logged
\* OK and the loop stands before the next source.
C15_Witness ==
  /\ rec = "failed"
  /\ pc = "loop" /\ idx <= Len(SITES)
  /\ log[Len(log)].outcome = "ok"
  /\ log[Len(log)].snaps # <<>>

\* The entries of dom sources whose item-container candidates never matched.
NoItemContainer(i) == log[i].mode = "dom" /\ log[i].why = "no_selector"

\* C16 as stated: a dom source whose item-container candidates never match
\* ends with an empty result, a capture call and no error.
C16_NoSelectorEmptyCapture ==
  \A i \in 1..Len(log) :
    (Ended(i) /\ NoItemContainer(i)) =>
      /\ log[i].part = <<>>
      /\ log[i].snaps # <<>>
      /\ log[i].outcome = "ok"

\* C16 amended: for such a source the DOM extractor itself raises nothing;
\* records can come only from the JSON-LD fallback and an error only from
\* within the fallback call; whenever the source ends with no record a
\* capture call has been made for it.
C16_NoSelectorThenFallback ==
  \A i \in 1..Len(log) :
    (Ended(i) /\ NoItemContainer(i)) =>
      /\ log[i].part = <<>> => log[i].snaps # <<>>
      /\ log[i].error = "none" => log[i].outcome = "ok"
      /\ log[i].part # <<>> =>
           /\ HasFallback(variant)
           /\ Len(log[i].calls) = 2
           /\ log[i].outcome = "ok"
      /\ log[i].outcome = "fail" =>
           /\ Len(log[i].calls) = 2
           /\ log[i].error \in {"reject", "no_filter"}

\* C16 witness: no item container, the fallback found nothing either, the
\* capture was made, the source is logged OK and the next source has begun.
C16_Witness ==
  /\ Len(log) = 2
  /\ NoItemContainer(1)
  /\ Len(log[1].calls) = 2
  /\ log[1].part = <<>>
  /\ log[1].outcome = "ok"
  /\ log[1].snaps = <<"empty">>

\* ------------------------------------------------------------------ scrapeICS
\* The VEVENT blocks of a calendar: at most MaxBlocks.
MaxBlocks == 2

\* The calendar text is a sequence of lines, a line a sequence of tokens.
\* The delimiter stands on a line of its own.
BeginEvent == <<"BEGIN:VEVENT">>

IcsUrl == <<"https://x.example", "/", "cal.ics">>

\* The blocks of the model (what follows one delimiter): the event of the
\* specification's scenario, with a DTSTART in the basic iCalendar format and
\* no URL or LOCATION line; a full event; an empty one; and an event whose
\* description mentions a URL.
BlockPool ==
  { << <<"SUMMARY", ":", "Trivia">>, <<"DTSTART", ":", "20240601T190000">>,
       <<"END", ":", "VEVENT">> >>,
    << <<"SUMMARY", ":", " ", "Jazz">>, <<"URL", ":", "https://y.example", "/", "e">>,
       <<"DTSTART", ":", "2024-05-01">>, <<"LOCATION", ":", "Hall">> >>,
    << >>,
    << <<"DESCRIPTION", ":", "see", " ", "URL", ":", "https://y.example", "/", "q">> >> }

Preambles == { << >>, << <<"VERSION", ":", "2.0">> >> }

\* the text of a calendar: a preamble, then each block after a delimiter
RECURSIVE Calendar(_, _)
Calendar(pre, bs) ==
  IF bs = <<>> THEN pre
  ELSE Calendar(pre \o <<BeginEvent>> \o Head(bs), Tail(bs))

\* text.split('BEGIN:VEVENT')
RECURSIVE SplitBlocks(_)
SplitBlocks(text) ==
  IF \A i \in 1..Len(text) : text[i] # BeginEvent
    THEN <<text>>
    ELSE LET c == CHOOSE i \in 1..Len(text) :
                    text[i] = BeginEvent /\ \A j \in 1..(i - 1) : text[j] # BeginEvent
         IN <<SubSeq(text, 1, c - 1)>> \o SplitBlocks(SubSeq(text, c + 1, Len(text)))

\* where the pattern `${k}:` occurs in a line
KeyAt(line, key) == { i \in 1..(Len(line) - 1) : line[i] = key /\ line[i + 1] = ":" }

\* const get = (k) => (block.match(new RegExp(`${k}:(.*)`)) || [, ''])[1].trim()
\* the leftmost occurrence of `k:` in the block, wherever it stands in its
\* line, and the rest of that line
get(block, key) ==
  IF \A n \in 1..Len(block) : KeyAt(block[n], key) = {}
    THEN <<>>
    ELSE LET n == CHOOSE m \in 1..Len(block) :
                    KeyAt(block[m], key) # {} /\ \A j \in 1..(m - 1) : KeyAt(block[j], key) = {}
             i == CHOOSE a \in KeyAt(block[n], key) : \A b \in KeyAt(block[n], key) : a <= b
         IN trim(SubSeq(block[n], i + 2, Len(block[n])))

\* the body of the map over blocks and of the loop over events, for one block
IcsRecord(cfg, block) ==
  LET summary == get(block, "SUMMARY")
      url     == IF get(block, "URL") # <<>> THEN get(block, "URL") ELSE cfg.ics
      dtstart == get(block, "DTSTART")
      venue   == IF get(block, "LOCATION") # <<>> THEN get(block, "LOCATION") ELSE cfg.venue
      date    == safe(dtstart)
      desc    == JoinDash(IF cfg.venue # <<>> THEN cfg.venue ELSE venue, date)
  IN [title       |-> TownPrefix(cfg.town) \o safe(summary),
      link        |-> toAbs(IF url # <<>> THEN url ELSE cfg.ics, cfg.ics),
      pubDate     |-> rfc822(date),
      description |-> desc,
      image       |-> <<>>]

\* cfg.venue: absent or configured
IcsVenues == { <<>>, <<"Club">> }

InitIcs ==
  /\ variant \in Variants
  /\ pc = "ics_fetch"
  /\ \E ven \in IcsVenues :
       xcfg = [fn |-> Extractor(variant, "ics"), loc |-> MkCfg("ics"),
               ics |-> IcsUrl, town |-> <<>>, venue |-> ven]
  /\ body \in { Calendar(pre, bs) : pre \in Preambles, bs \in SeqsUpTo(BlockPool, MaxBlocks) }
  /\ xi = 1 /\ out = <<>> /\ xret = "running"
  /\ items = <<>> /\ dedup = <<>>
  /\ IdleMain /\ IdleDedup /\ IdleOut /\ IdleRerun /\ IdleScroll /\ IdleReload /\ IdleFilter /\ IdleSel

\* the call main makes for an ics source and its fetch: scraper.mjs calls
\* scrapeJSON, which fetches cfg.api, a field an ics source does not have
IcsFetch ==
  /\ pc = "ics_fetch"
  /\ IF xcfg.loc[LocatorField(xcfg.fn)] = Undefined
       THEN pc' = "ics_done" /\ xret' = "bad_locator"
       ELSE \/ pc' = "ics_build" /\ UNCHANGED xret
            \/ pc' = "ics_done" /\ xret' = "net_error"
  /\ UNCHANGED <<variant, mainVars, dedupVars, outVars, filterVars, rerunVars, scrollVars, reloadVars, selVars, xcfg, body, xi, out>>

\* split, map, the loop over events and return
IcsBuild ==
  /\ pc = "ics_build"
  /\ LET blocks == Tail(SplitBlocks(body)) IN
       /\ out' = [j \in 1..Len(blocks) |-> IcsRecord(xcfg, blocks[j])]
       /\ xi' = Len(blocks) + 1
  /\ pc' = "ics_done" /\ xret' = "returned"
  /\ UNCHANGED <<variant, mainVars, dedupVars, outVars, filterVars, rerunVars, scrollVars, reloadVars, selVars, xcfg, body>>

NextIcs == IcsFetch \/ IcsBuild

IcsSpec == InitIcs /\ [][NextIcs]_vars

\* The blocks of the calendar read off the text: block j runs from the line
\* after the j-th delimiter to the line before the next one.
Delims == { i \in 1..Len(body) : body[i] = BeginEvent }
DelimNo(j) == CHOOSE i \in Delims : Cardinality({ a \in Delims : a <= i }) = j
BlockNo(j) ==
  LET a == DelimNo(j)
      later == { i \in Delims : i > a }
      z == IF later = {} THEN Len(body)
           ELSE (CHOOSE i \in later : \A b \in later : i <= b) - 1
  IN SubSeq(body, a + 1, z)

\* The value of the first line of a block that starts with `k:`, <<>> when
\* the block has no such line.
LineValue(block, key) ==
  LET ns == { n \in 1..Len(block) : Len(block[n]) >= 2 /\ block[n][1] = key /\ block[n][2] = ":" }
  IN IF ns = {} THEN <<>>
     ELSE LET n == CHOOSE a \in ns : \A b \in ns : a <= b
          IN trim(SubSeq(block[n], 3, Len(block[n])))

\* C17: the pubDate of every record is a valid date in the fixed format: the
\* date of the event when it has one that parses, the run time when the date
\* is absent or does not parse.
C17_PubDateValid ==
  (pc = "ics_done" /\ xret = "returned") =>
    \A j \in 1..Len(out) :
      LET d == LineValue(BlockNo(j), "DTSTART") IN
        /\ out[j].pubDate # <<"Invalid Date">>
        /\ out[j].pubDate = IF d \in ParseableDates THEN toUTCString(ParseDate(d))
                            ELSE toUTCString(Now)

\* C19: an ics source whose calendar is served yields one record per
\* BEGIN:VEVENT block and none for the preamble; the record's title is the
\* block's SUMMARY (empty when missing), its link the block's URL line or,
\* without one, the calendar URL, and its image is empty.
C19_RecordPerBlock ==
  (pc = "ics_done" /\ xret # "net_error") =>
    /\ xret = "returned"
    /\ Len(out) = Cardinality(Delims)
    /\ \A j \in 1..Len(out) :
         /\ out[j].title = LineValue(BlockNo(j), "SUMMARY")
         /\ out[j].link = IF LineValue(BlockNo(j), "URL") = <<>> THEN xcfg.ics
                          ELSE LineValue(BlockNo(j), "URL")
         /\ out[j].image = <<>>

\* ----------------------------------------------------------------- scrapeJSON
\* The objects of a response body: at most MaxObjs.
MaxObjs == 2

ApiUrl == <<"https://x.example", "/", "api", "/", "events">>

\* The event-like objects of the model, a missing field being <<>>: the
\* object of the specification's scenario, and one with a title, an absolute
\* link and nothing else.
EventObjs ==
  { [title |-> <<>>, name |-> <<"Jazz", " ", "Night">>, url |-> <<"/", "e", "/", "1">>,
     link |-> <<>>, start_date |-> <<"2024-05-01">>, venue |-> <<"The", " ", "Hall">>],
    [title |-> <<"Gala">>, name |-> <<"Other">>, url |-> <<>>,
     link |-> <<"https://y.example", "/", "g">>, start_date |-> <<>>, venue |-> <<>>] }

\* A parsed body: an array, or an object holding an array under one key.
Bodies ==
  [isArray : BOOLEAN, key : {"events", "data"}, list : SeqsUpTo(EventObjs, MaxObjs)]

\* map: absent, or { path: "events" }
JsonConfigs ==
  [fn : {"scrapeJSON"}, api : {ApiUrl}, town : {<<>>, <<"Roswell">>}, venue : {<<>>},
   hasMap : BOOLEAN, path : {"events"}]

\* pick(data, pathStr) for a path of one segment
pick(data, hasPath, pathStr) ==
  IF ~hasPath THEN [defined |-> FALSE, val |-> <<>>]
  ELSE IF ~data.isArray /\ data.key = pathStr THEN [defined |-> TRUE, val |-> data.list]
  ELSE [defined |-> FALSE, val |-> <<>>]

\* const list = ...: part_002 takes map.path when it leads to an array, else
\* the body when it is an array, else []; scraper.mjs takes data.events when
\* it is an array, else the body when it is an array, else []
EventList(v, cfg, data) ==
  IF v = "scraper_mjs"
    THEN (IF ~data.isArray /\ data.key = "events" THEN data.list
          ELSE IF data.isArray THEN data.list ELSE <<>>)
    ELSE (IF pick(data, cfg.hasMap, cfg.path).defined THEN pick(data, cfg.hasMap, cfg.path).val
          ELSE IF data.isArray THEN data.list ELSE <<>>)

Or(a, b) == IF a # <<>> THEN a ELSE b

\* the body of the loop over list, for one object (no map override of the
\* fields, no image in the object)
JsonRecord(v, cfg, e) ==
  LET title == safe(Or(e.title, e.name))
      link  == toAbs(Or(safe(Or(e.url, e.link)), cfg.api), cfg.api)
      date  == safe(e.start_date)
      venue == safe(Or(e.venue, cfg.venue))
  IN [title       |-> TownPrefix(cfg.town) \o title,
      link        |-> link,
      pubDate     |-> rfc822(date),
      description |-> JoinDash(venue, date),
      image       |-> IF v = "scraper_mjs" THEN <<>> ELSE toAbs(<<>>, link)]

InitJson ==
  /\ variant \in Variants
  /\ pc = "json_fetch"
  /\ xcfg \in JsonConfigs
  /\ body \in Bodies
  /\ xi = 1 /\ out = <<>> /\ xret = "running"
  /\ items = <<>> /\ dedup = <<>>
  /\ IdleMain /\ IdleDedup /\ IdleOut /\ IdleRerun /\ IdleScroll /\ IdleReload /\ IdleFilter /\ IdleSel

\* await fetch(cfg.api), the res.ok test and await res.json()
JsonFetch ==
  /\ pc = "json_fetch"
  /\ \/ pc' = "json_build" /\ UNCHANGED xret
     \/ pc' = "json_done" /\ xret' = "net_error"
  /\ UNCHANGED <<variant, mainVars, dedupVars, outVars, filterVars, rerunVars, scrollVars, reloadVars, selVars, xcfg, body, xi, out>>

\* the list, the loop over it and return
JsonBuild ==
  /\ pc = "json_build"
  /\ LET lst == EventList(variant, xcfg, body) IN
       /\ out' = [j \in 1..Len(lst) |-> JsonRecord(variant, xcfg, lst[j])]
       /\ xi' = Len(lst) + 1
  /\ pc' = "json_done" /\ xret' = "returned"
  /\ UNCHANGED <<variant, mainVars, dedupVars, outVars, filterVars, rerunVars, scrollVars, reloadVars, selVars, xcfg, body>>

NextJson == JsonFetch \/ JsonBuild

JsonSpec == InitJson /\ [][NextJson]_vars

\* C18: a json source with no map override whose body is an object holding
\* the event list under `events` yields one record per listed object: the
\* title is the town prefix and the object's title or name, the link is the
\* object's url or link resolved against api (api itself without one), the
\* description is the venue name and the start date joined by the dash.
C18_EventsKeyWithoutMap ==
  (pc = "json_done" /\ xret = "returned" /\ xcfg.fn = "scrapeJSON"
     /\ ~xcfg.hasMap /\ ~body.isArray /\ body.key = "events") =>
    /\ Len(out) = Len(body.list)
    /\ \A j \in 1..Len(out) :
         LET e == body.list[j] IN
           /\ out[j].title = TownPrefix(xcfg.town) \o Or(e.title, e.name)
           /\ out[j].link = IF Or(e.url, e.link) = <<>> THEN xcfg.api
                            ELSE Resolve(Or(e.url, e.link), xcfg.api)
           /\ out[j].description = JoinDash(e.venue, e.start_date)

\* --------------------------------------------------------------- scrapeJSONLD
\* The ld+json scripts of a page: at most MaxNodes.
MaxNodes == 2

LdUrl == <<"https://x.example", "/", "events">>

\* The image URLs a node may carry: an absolute one and a root-relative one.
ImageUrls == { <<"https://x.example", "/", "a.jpg">>, <<"/", "b.jpg">> }

\* The `image` of a node: absent, a string, an object with url, an array of
\* strings, an array of objects with url, an empty array, a number; u is the
\* URL it holds (<<>> when it holds none).
Images ==
  { [shape |-> sh, u |-> u] :
      sh \in {"string", "object", "array_string", "array_object"}, u \in ImageUrls }
  \cup { [shape |-> sh, u |-> <<>>] : sh \in {"absent", "empty_array", "number", "string"} }

\* A script holds one node, or text JSON.parse rejects; only the node's type
\* and image vary.
Scripts ==
  { [type |-> "Event", name |-> <<"Jazz">>, url |-> <<>>, start |-> <<>>, image |-> im] :
      im \in Images }
  \cup { [type |-> t, name |-> <<>>, url |-> <<>>, start |-> <<>>,
          image |-> [shape |-> "absent", u |-> <<>>]] : t \in {"Article", "invalid"} }

IsEvent(n) == n.type = "Event"

IsArrayShape(ri) == ri.shape \in {"array_string", "array_object", "empty_array"}

\* A normalization that reads an array only when its first element is a string.
ImageOfStringsOnly(ri) ==
  IF ri.shape = "string" THEN ri.u
  ELSE IF ri.shape = "object" /\ ri.u # <<>> THEN ri.u
  ELSE IF ri.shape = "array_string" THEN ri.u
  ELSE <<>>

\* let img = ''; if (typeof ri === 'string') ... else if (ri && typeof ri ===
\* 'object' && ri.url) ... else if (Array.isArray(ri) && ri.length) ...
\* (an array is an object too, but it has no url property)
ImageOf(ri) ==
  IF ri.shape = "string" THEN ri.u
  ELSE IF (ri.shape = "object" \/ IsArrayShape(ri))
          /\ (IF ri.shape = "object" THEN ri.u ELSE <<>>) # <<>>
    THEN ri.u
  ELSE IF IsArrayShape(ri) /\ ri.shape # "empty_array"
    THEN ri.u
  ELSE <<>>

\* the body of the loop over events, for one node (no filters)
LdRecord(v, cfg, e) ==
  LET title == safe(e.name)
      url   == toAbs(Or(safe(e.url), cfg.url), cfg.url)
      start == safe(e.start)
      venue == safe(cfg.venue)
  IN [title       |-> TownPrefix(cfg.town) \o title,
      link        |-> url,
      pubDate     |-> rfc822(start),
      description |-> JoinDash(venue, start),
      image       |-> IF v = "scraper_mjs" THEN <<>>
                      ELSE toAbs(safe(ImageOf(e.image)), cfg.url)]

InitLd ==
  /\ variant \in Variants
  /\ pc = "ld_goto"
  /\ xcfg = [fn |-> "scrapeJSONLD", url |-> LdUrl, town |-> <<>>, venue |-> <<>>]
  /\ body \in SeqsUpTo(Scripts, MaxNodes)
  /\ xi = 1 /\ out = <<>> /\ xret = "running"
  /\ items = <<>> /\ dedup = <<>>
  /\ IdleMain /\ IdleDedup /\ IdleOut /\ IdleRerun /\ IdleScroll /\ IdleReload
  /\ IdleFilter /\ IdleSel

\* await page.goto(cfg.url, ...) and the sleep after it
LdGoto ==
  /\ pc = "ld_goto"
  /\ \/ pc' = "ld_build" /\ UNCHANGED xret
     \/ pc' = "ld_done" /\ xret' = "nav_error"
  /\ UNCHANGED <<variant, mainVars, dedupVars, outVars, filterVars, rerunVars, scrollVars,
                 reloadVars, selVars, xcfg, body, xi, out>>

\* the scripts are read and parsed, the Event nodes collected, the loop over
\* them run, and out returned
LdBuild ==
  /\ pc = "ld_build"
  /\ LET events == SelectSeq(body, IsEvent) IN
       /\ out' = [j \in 1..Len(events) |-> LdRecord(variant, xcfg, events[j])]
       /\ xi' = Len(events) + 1
  /\ pc' = "ld_done" /\ xret' = "returned"
  /\ UNCHANGED <<variant, mainVars, dedupVars, outVars, filterVars, rerunVars, scrollVars,
                 reloadVars, selVars, xcfg, body>>

NextLd == LdGoto \/ LdBuild

LdSpec == InitLd /\ [][NextLd]_vars

\* The Event nodes of the page, in page order.
EventNodes == SelectSeq(body, IsEvent)

\* An image in one of the four encodings of a URL.
Encodes(ri, u) ==
  ri.shape \in {"string", "object", "array_string", "array_object"} /\ ri.u = u

\* C21: two Event nodes whose image is the same URL, each in any of the four
\* encodings (string, object with url, array of strings, array of objects
\* with url), give records with the same image, which in the revision that
\* reads images is that URL made absolute against the page URL.
C21_ImageEncodingIndependent ==
  (pc = "ld_done" /\ xret = "returned") =>
    /\ Len(out) = Len(EventNodes)
    /\ \A i \in 1..Len(out), j \in 1..Len(out), u \in ImageUrls :
         (Encodes(EventNodes[i].image, u) /\ Encodes(EventNodes[j].image, u)) =>
           /\ out[i].image = out[j].image
           /\ variant = "part_002" =>
                (out[i].image = Resolve(u, xcfg.url) /\ HasScheme(out[i].image))

\* C21 witness: a relative image URL given once as an object and once as an
\* array of objects, both records carrying the absolute URL.
C21_Witness ==
  /\ pc = "ld_done" /\ xret = "returned" /\ variant = "part_002"
  /\ Len(out) = 2
  /\ EventNodes[1].image = [shape |-> "object", u |-> <<"/", "b.jpg">>]
  /\ EventNodes[2].image = [shape |-> "array_object", u |-> <<"/", "b.jpg">>]
  /\ out[1].image = <<"https://x.example", "/", "b.jpg">>
  /\ out[2].image = out[1].image

\* A node whose image supplies no value: absent, empty, or of a shape the
\* normalization does not read.
NoImageValue(ri) == ri.u = <<>>

\* C30: a record of the JSON-LD extractor has a non-empty image only if its
\* node supplied an image value; a node with no image value gives the empty
\* image.
C30_ImageOnlyIfSupplied ==
  (pc = "ld_done" /\ xret = "returned") =>
    \A j \in 1..Len(out) :
      NoImageValue(EventNodes[j].image) => out[j].image = <<>>

\* ------------------------------------------------------------------ scrapeRSS
\* The entries of a feed: at most MaxEntries.
MaxEntries == 2

RssUrl == <<"https://x.example", "/", "feed.xml">>

\* The entries of the model, a missing element being <<>>: two entries that
\* differ in pubDate only, the second without one, and an entry with no link
\* and a relative image.
RssEntries ==
  { [title |-> <<"A", " ", "b">>, link |-> <<"https://y.example", "/", "p">>, guid |-> <<>>,
     description |-> <<"d">>, pubDate |-> <<"2024-05-01">>, img |-> <<>>],
    [title |-> <<"A", " ", "b">>, link |-> <<"https://y.example", "/", "p">>, guid |-> <<>>,
     description |-> <<"d">>, pubDate |-> <<>>, img |-> <<>>],
    [title |-> <<"B">>, link |-> <<>>, guid |-> <<>>,
     description |-> <<>>, pubDate |-> <<>>, img |-> <<"/", "i.png">>] }

\* A parsed document: its root element (rss with a channel, an Atom feed, or
\* another document) and the item or entry elements under it.
Feeds == [root : {"rss", "feed", "other"}, entries : SeqsUpTo(RssEntries, MaxEntries)]

RssConfigs ==
  [fn : {"scrapeRSS"}, rss : {RssUrl}, town : {<<>>}, venue : {<<>>, <<"The", " ", "Hall">>}]

\* channel = parsed.rss?.channel || parsed.feed || {}; entries = channel.item
\* || channel.entry || []; arr (a single element counts as a list of one)
EntryList(data) == IF data.root \in {"rss", "feed"} THEN data.entries ELSE <<>>

\* the body of the loop over arr, for one entry (no filters)
RssRecord(cfg, e) ==
  LET title    == safe(e.title)
      link     == Or(e.link, Or(e.guid, cfg.rss))
      desc     == safe(e.description)
      pub      == safe(Or(e.pubDate, toUTCString(Now)))
      imageAbs == IF e.img # <<>> THEN toAbs(e.img, link) ELSE <<>>
  IN [title       |-> TownPrefix(cfg.town) \o title,
      link        |-> toAbs(link, cfg.rss),
      guid        |-> Or(link, cfg.rss) \o <<"#">> \o norm(title),
      pubDate     |-> rfc822(pub),
      description |-> JoinDash(cfg.venue, desc),
      image       |-> imageAbs]

InitRss ==
  /\ variant = "part_002"
  /\ pc = "rss_fetch"
  /\ xcfg \in RssConfigs
  /\ body \in Feeds
  /\ xi = 1 /\ out = <<>> /\ xret = "running"
  /\ items = <<>> /\ dedup = <<>>
  /\ IdleMain /\ IdleDedup /\ IdleOut /\ IdleRerun /\ IdleScroll /\ IdleReload
  /\ IdleFilter /\ IdleSel

\* await fetch(cfg.rss), the res.ok test, await res.text() and the parse
RssFetch ==
  /\ pc = "rss_fetch"
  /\ \/ pc' = "rss_build" /\ UNCHANGED xret
     \/ pc' = "rss_done" /\ xret' = "net_error"
  /\ UNCHANGED <<variant, mainVars, dedupVars, outVars, filterVars, rerunVars, scrollVars,
                 reloadVars, selVars, xcfg, body, xi, out>>

\* the entries, the loop over them and return
RssBuild ==
  /\ pc = "rss_build"
  /\ LET arr == EntryList(body) IN
       /\ out' = [j \in 1..Len(arr) |-> RssRecord(xcfg, arr[j])]
       /\ xi' = Len(arr) + 1
  /\ pc' = "rss_done" /\ xret' = "returned"
  /\ UNCHANGED <<variant, mainVars, dedupVars, outVars, filterVars, rerunVars, scrollVars,
                 reloadVars, selVars, xcfg, body>>

NextRss == RssFetch \/ RssBuild

RssSpec == InitRss /\ [][NextRss]_vars

\* The date text a record was built from: the entry's pubDate, or the run
\* time's UTC string when it has none.
RssDate(e) == Or(e.pubDate, toUTCString(Now))

\* C25: every record has a guid made of its own link, its normalized title
\* and its normalized date, so that records of one list that differ in date
\* have different guids.
C25_GuidLinkTitleDate ==
  (pc = "rss_done" /\ xret = "returned") =>
    /\ \A j \in 1..Len(out) :
         out[j].guid = out[j].link \o <<"#">> \o norm(EntryList(body)[j].title)
                         \o <<"#">> \o norm(RssDate(EntryList(body)[j]))
    /\ \A i \in 1..Len(out), j \in 1..Len(out) :
         out[i].pubDate # out[j].pubDate => out[i].guid # out[j].guid

\* ------------------------------------------------- an extractor run twice
\* The times a run may take place at.
Clocks == {"now", "later"}

\* The first step of an extractor.
FirstPc(fn) == IF fn = "scrapeRSS" THEN "rss_fetch" ELSE "json_fetch"

Settled == pc \in {"json_done", "rss_done"}

\* scrapeJSON or scrapeRSS called on one configuration and one response
InitRerun ==
  \/ InitJson
  \/ InitRss

\* The same extractor is called again with the same configuration, the server
\* answering with the same content, at a time that may be the same or not.
Rerun ==
  /\ Settled /\ run = 1
  /\ prev' = <<[at |-> clock, ret |-> xret, out |-> out]>>
  /\ run' = 2
  /\ clock' \in Clocks
  /\ pc' = FirstPc(xcfg.fn)
  /\ xi' = 1 /\ out' = <<>> /\ xret' = "running"
  /\ UNCHANGED <<variant, mainVars, dedupVars, outVars, filterVars, scrollVars,
                 reloadVars, selVars, xcfg, body>>

NextRerun == JsonFetch \/ JsonBuild \/ RssFetch \/ RssBuild \/ Rerun

RerunSpec == InitRerun /\ [][NextRerun]_vars

C26_LocationBeforeConfigured ==
  (pc = "ics_done" /\ xret = "returned") =>
    \A j \in 1..Len(out) :
      LET loc  == LineValue(BlockNo(j), "LOCATION")
          date == LineValue(BlockNo(j), "DTSTART")
      IN out[j].description = JoinDash(IF loc # <<>> THEN loc ELSE xcfg.venue, date)

\* -------------------------------------------------- the de-dup key and '|'
\* C28: the de-dup loop drops a record only when an earlier record of the
\* list has the same normalized title, the same normalized description and
\* the same normalized link: a record whose triple differs in some component
\* from that of every earlier record is retained, also when its texts hold
\* the '|' character.
C28_DropOnlyOnEqualTriple ==
  pc = "deduped" =>
    \A i \in 1..Len(items) :
      (\A j \in 1..(i - 1) : Triple(items[j]) # Triple(items[i])) =>
        \E n \in 1..Len(kept) : kept[n] = i

\* ------------------------------------------------------------------ autoScroll
\* The interval ticks followed: at most MaxTicks.
MaxTicks == 12

\* autoScroll(page, pixels = 2000)
Pixels == 2000

\* Math.max(200, Math.floor(pixels / 10))
ScrollStep == IF Pixels \div 10 > 200 THEN Pixels \div 10 ELSE 200

\* document.body.scrollHeight when autoScroll is called, and what the page
\* adds to it each time it is scrolled (0 for a page that loads nothing more).
Heights == {0, 400, 800, 1000, 1200}
Growths == {0, 100, 300, 400}

InitScroll ==
  /\ variant = "part_000"
  /\ pc = "scroll"
  /\ scrolled = 0 /\ ticks = 0
  /\ height \in Heights
  /\ growth \in Growths
  /\ items = <<>> /\ dedup = <<>>
  /\ IdleMain /\ IdleDedup /\ IdleOut /\ IdleRerun /\ IdleReload
  /\ IdleFilter /\ IdleSel /\ IdleEx

\* A page on which the stopping test falls further behind at every tick: it
\* grows by at least ten ninths of the step each time it is scrolled.
Outruns == 9 * growth >= 10 * ScrollStep

\* one firing of the interval callback: scrollBy, scrolled += step, the page
\* growing in answer to the scroll, and the test against 0.9 of scrollHeight
ScrollTick ==
  /\ pc = "scroll" /\ ticks < MaxTicks
  /\ scrolled' = scrolled + ScrollStep
  /\ height' = height + growth
  /\ ticks' = ticks + 1
  /\ pc' = IF 10 * scrolled' >= 9 * height' THEN "scroll_done" ELSE "scroll"
  /\ UNCHANGED <<variant, mainVars, dedupVars, outVars, filterVars, rerunVars, growth,
                 reloadVars, selVars, exVars>>

\* the callback firing after MaxTicks ticks on a page that outruns the
\* scroll: scrolled and height are followed no further (their distance only
\* grows), ticks only up to its parity, and the test fails as before
ScrollTickOn ==
  /\ pc = "scroll" /\ ticks >= MaxTicks /\ Outruns
  /\ 10 * (scrolled + ScrollStep) < 9 * (height + growth)
  /\ ticks' = IF ticks = MaxTicks THEN MaxTicks + 1 ELSE MaxTicks
  /\ UNCHANGED <<variant, pc, mainVars, dedupVars, outVars, filterVars, rerunVars,
                 scrolled, height, growth, reloadVars, selVars, exVars>>

NextScroll == ScrollTick \/ ScrollTickOn

ScrollSpec == InitScroll /\ [][NextScroll]_vars

\* the interval timer keeps firing until it is cleared
ScrollFairSpec == ScrollSpec /\ WF_vars(NextScroll)

\* C27: for every page, also one whose scroll height grows each time it is
\* scrolled, autoScroll stops after a bounded number of interval ticks.
C27_AutoScrollTerminates == <>(pc = "scroll_done")

\* The distance left to the stopping test, in tenths of a pixel.
ScrollGap == 9 * height - 10 * scrolled

\* On a page that grows by at least ten ninths of the step per scroll the
\* distance to the stopping test never shrinks, so the test never succeeds.
ScrollNeverStops ==
  (Outruns /\ ticks > 0) => (pc = "scroll" /\ ScrollGap > 0)

\* Every other page of the model has stopped when MaxTicks is reached.
ScrollOthersStop ==
  (~Outruns /\ ticks >= MaxTicks) => pc = "scroll_done"

\* ----------------------------------------- scrapeDOM: max, images, fallback
\* The item elements of a listing page: at most MaxItems.
MaxItems == 3

OgImage == <<"https://y.example", "/", "og.jpg">>

\* The cards of a listing: one with no image element, whose detail page offers
\* an image; one with neither title nor link; one whose image element has a
\* src; one whose image element has none of the attributes read.
ItemCards ==
  { [title |-> <<"Jazz">>, href |-> <<"https://y.example", "/", "e">>, date |-> <<>>,
     img |-> NoImg, detail |-> OgImage],
    [title |-> <<>>, href |-> <<>>, date |-> <<"Friday">>,
     img |-> NoImg, detail |-> <<>>],
    [title |-> <<"Jazz">>, href |-> <<"https://y.example", "/", "e">>, date |-> <<>>,
     img |-> [el |-> TRUE, src |-> <<"/", "i.png">>], detail |-> <<>>],
    [title |-> <<"Jazz">>, href |-> <<"https://y.example", "/", "e">>, date |-> <<>>,
     img |-> [el |-> TRUE, src |-> <<>>], detail |-> OgImage] }

\* max: absent, 1 or 2; the per-field candidate lists well-formed
ItemConfigs ==
  [fn : {"scrapeDOM"}, url : {DomUrl}, town : {<<>>}, venue : {<<>>},
   item : {<<"ok">>, <<"bad", "ok">>}, title : {<<"ok">>}, link : {<<"ok">>}, date : {<<"ok">>},
   image : {<<"ok">>}, max : {0, 1, 2}]

InitDomItems ==
  /\ variant \in Variants
  /\ pc = "dom_goto"
  /\ xcfg \in ItemConfigs
  /\ body \in SeqsUpTo(ItemCards, MaxItems)
  /\ xi = 1 /\ out = <<>> /\ xret = "running"
  /\ items = <<>> /\ dedup = <<>>
  /\ IdleMain /\ IdleDedup /\ IdleOut /\ IdleRerun /\ IdleScroll /\ IdleReload
  /\ IdleFilter /\ IdleSel

DomItemsSpec == InitDomItems /\ [][NextDom]_vars

\* The matched item elements that have a title or a link.
Countable == SelectSeq(body, HasTitleOrHref)

\* The budget of a source: its max, or the default.
Budget == IF xcfg.max # 0 THEN xcfg.max ELSE DefaultMax

\* C23: an item with neither title nor link does not count toward max: with
\* no filters, the DOM extractor emits min(max, number of matched item
\* elements that have a title or a link) records.
C23_DiscardedNotCounted ==
  (pc = "dom_done" /\ xret = "returned" /\ xi > 1) =>
    Len(out) = IF Len(Countable) < Budget THEN Len(Countable) ELSE Budget

\* C24: for every emitted item that has a link and for which no image value
\* was found among the attributes of its matched image elements, the record's
\* image is what the detail-page fallback returns for the item's link.
C24_FallbackWhenNoImageValue ==
  (variant = "part_002" /\ xret \in {"running", "returned"}) =>
    /\ Len(out) = Len(KeptCards)
    /\ \A j \in 1..Len(out) :
         (KeptCards[j].href # <<>> /\ KeptCards[j].img.src = <<>>) =>
           out[j].image = fetchDetailImage(KeptCards[j])

\* ---------------------------------- scrapeDOM of the first revision: reload
\* scrapeDOM of the first revision called on a listing page
InitReload ==
  /\ variant = "part_000"
  /\ pc = "dom_goto"
  /\ xcfg \in ItemConfigs
  /\ body \in SeqsUpTo(ItemCards, MaxItems)
  /\ xi = 1 /\ out = <<>> /\ xret = "running"
  /\ items = <<>> /\ dedup = <<>>
  /\ IdleMain /\ IdleDedup /\ IdleOut /\ IdleRerun /\ IdleScroll /\ IdleReload
  /\ IdleFilter /\ IdleSel

\* the page shows a browser check: saveDebug(page, cfg, 'cf-block'), return []
DomChallenge ==
  /\ pc = "dom_resolve" /\ variant = "part_000"
  /\ captures' = Append(captures, "cf-block")
  /\ pc' = "dom_done" /\ xret' = "returned"
  /\ UNCHANGED <<variant, mainVars, dedupVars, outVars, filterVars, rerunVars, scrollVars,
                 reloads, selVars, xcfg, body, xi, out>>

\* the loop is over with no record: page.reload, which may reject, then
\* clickCookieBanners, sleep and autoScroll
DomReload ==
  /\ pc = "dom_cards" /\ xi > Take(variant, xcfg, body)
  /\ ReloadWanted(variant, out)
  /\ reloads' = reloads + 1
  /\ \/ pc' = "dom_recheck" /\ UNCHANGED xret
     \/ pc' = "dom_done" /\ xret' = "nav_error"
  /\ UNCHANGED <<variant, mainVars, dedupVars, outVars, filterVars, rerunVars, scrollVars,
                 captures, selVars, xcfg, body, xi, out>>

\* const again = await firstExistingSelector(page, cfg.item, 4000); if
\* (!again) { await saveDebug(page, cfg, 'empty'); return []; } return out
DomRecheck ==
  /\ pc = "dom_recheck"
  /\ \E again \in BOOLEAN :
       captures' = IF again THEN captures ELSE Append(captures, "empty")
  /\ pc' = "dom_done" /\ xret' = "returned"
  /\ UNCHANGED <<variant, mainVars, dedupVars, outVars, filterVars, rerunVars, scrollVars,
                 reloads, selVars, xcfg, body, xi, out>>

NextReload == NextDom \/ DomChallenge \/ DomReload \/ DomRecheck

ReloadSpec == InitReload /\ [][NextReload]_vars

\* The extractor returned an empty list after its pass over the elements,
\* not from the browser-check test or for want of an item selector.
EmptyAfterPass ==
  /\ pc = "dom_done" /\ xret = "returned" /\ out = <<>>
  /\ captures \notin {<<"no-selector">>, <<"cf-block">>}

====
